---- MODULE Spec2Model ----
(***************************************************************************)
(* BubbaGrump: unattended discovery of cloud resources.                    *)
(*                                                                         *)
(* The module models                                                       *)
(*   - the parameter constructor (v1 Request.construct, v2 Structure.reap), *)
(*   - the entity stores (Domain, Universe, v2 Shape.sow),                  *)
(*   - the shape builder of v2 (ShapeDomain.__getitem__),                   *)
(*   - the fixpoint schedulers (src/grump.py, v2 build_execution_plan).     *)
(* Each part has its own specification over the shared variables; the      *)
(* variables a specification does not use stay at their initial value.     *)
(***************************************************************************)
EXTENDS Integers, Sequences, FiniteSets, TLC

VARIABLES
    impl,       \* which implementation the behaviour follows: "v1", "current", "v2"
    req,        \* constructor: the Request / input Structure under construction
    known,      \* constructor: shape name -> set of values known for it
    out,        \* constructor: result of construct / reap, or NotRun
    svc,        \* scheduler: the operations of the service, in schema order
    pending,    \* scheduler: read_only_operations (v1) / ops_remaining (v2)
    todo,       \* scheduler: operations still to attempt in this phase or pass
    successes,  \* scheduler: successes (v1) / ops_succeeded (v2) of this pass
    pc,         \* scheduler: "starter", "loop", "done" or "aborted"
    passes,     \* scheduler: passes of the while loop started so far
    n0,         \* scheduler: number of pending operations when the loop began
    region,     \* scheduler: index of the region being crawled (v2)
    dom,        \* v1 Domain: dimension key -> set of entity images
    E,          \* v2 Shape.E: shape name -> sequence of entities
    hist,       \* scheduler: what the collaborator was asked and answered
    universe,   \* Universe.dimensions of the service: species -> its set or list
    tally,      \* entity stores: leaf shape -> value -> times it was manifested
    harvested,  \* entity stores: the shape and image of each populate / sow, in order
    domains,    \* Domain tree: path of a Domain from the root -> its root entity and entities
    direct,     \* Domain tree: path -> the images manifest was called with on that Domain
    returned,   \* Domain tree: the dimension calls made: parent, key, child returned
    dimensions, \* Universe.dimensions: dimension -> species -> its set or list
    spawned,    \* Universe: species -> dimension -> the images spawn was called with
    calls,      \* Domain tree and Universe: number of calls made so far
    botoshapes, \* shape builder: the schema's shape graph, name -> type and members
    instances,  \* shape builder: every Shape instance created, by identity
    silhouettes,\* shape builder: ShapeDomain.silhouettes, silhouette -> identity
    S,          \* shape builder: ShapeDomain.S, canonical form -> identity
    stack,      \* shape builder: the __getitem__ calls in progress, innermost last
    held,       \* shape builder: identities returned to the callers of the domain
    requests,   \* shape builder: number of shapes asked of the domain so far
    received,   \* Operation.call: the pages the paginator has yielded so far
    response,   \* Operation.call: ret, the merge of the pages received
    rawshapes,  \* service: the schema's shape table, service["shapes"]
    resolved,   \* service: the shape asked for last, by which call, and what the call gave
    lineages,   \* v2 Lineage: the args of the Lineage objects that exist, in creation order
    lastcall    \* v2 Lineage: the last constructor or append call and whether it raised

ctorVars == <<req, known, out>>
schedVars == <<svc, pending, todo, successes, pc, passes, n0, region, hist>>
storeVars == <<dom, E, universe, tally, harvested>>
domainVars == <<domains, direct, returned, dimensions, spawned, calls>>
builderVars == <<botoshapes, instances, silhouettes, S, stack, held, requests>>
mergeVars == <<received, response>>
modelVars == <<rawshapes, resolved>>
lineageVars == <<lineages, lastcall>>
callVars == <<mergeVars, modelVars, lineageVars>>
vars == <<impl, ctorVars, schedVars, storeVars, builderVars, domainVars, callVars>>

(***************************************************************************)
(* Bounds of the model.                                                    *)
(***************************************************************************)
\* largest number of members a Request shape declares
MaxMembers == 2

(***************************************************************************)
(* Generic helpers.                                                        *)
(***************************************************************************)
EmptyMap == <<>>

Range(s) == {s[i] : i \in DOMAIN s}

RECURSIVE SetToSeq(_)
\* a Python list built by iterating a set: some order, each element once
SetToSeq(set) ==
    IF set = {} THEN <<>>
    ELSE LET x == CHOOSE y \in set : TRUE IN <<x>> \o SetToSeq(set \ {x})

RECURSIVE Flatten(_)
Flatten(ss) == IF ss = <<>> THEN <<>> ELSE Head(ss) \o Flatten(Tail(ss))

(***************************************************************************)
(* The shape table of the modelled service (the schema collaborator's      *)
(* "shapes" object).  Every kind of shape the code dispatches on occurs.   *)
(***************************************************************************)
LeafTypes == {"blob", "boolean", "double", "float", "integer", "long", "timestamp"}

Sh(type, members, order, required, member, hasEnum, enum) ==
    [type |-> type, members |-> members, order |-> order, required |-> required,
     member |-> member, key |-> "NameType", hasEnum |-> hasEnum, enum |-> enum]

ShapeTable ==
    [NameType  |-> Sh("string", EmptyMap, <<>>, {}, "", FALSE, <<>>),
     StateType |-> Sh("string", EmptyMap, <<>>, {}, "", TRUE, <<"on", "off">>),
     CountType |-> Sh("integer", EmptyMap, <<>>, {}, "", FALSE, <<>>),
     NameList  |-> Sh("list", EmptyMap, <<>>, {}, "NameType", FALSE, <<>>),
     CountList |-> Sh("list", EmptyMap, <<>>, {}, "CountType", FALSE, <<>>),
     TagType   |-> Sh("string", EmptyMap, <<>>, {}, "", FALSE, <<>>),
     TagList   |-> Sh("list", EmptyMap, <<>>, {}, "TagType", FALSE, <<>>),
     TagStruct |-> Sh("structure", [Key |-> "NameType"], <<"Key">>, {"Key"}, "", FALSE, <<>>),
     NameAlias |-> Sh("alias", EmptyMap, <<>>, {}, "NameType", FALSE, <<>>),
     AttrMap   |-> Sh("map", EmptyMap, <<>>, {}, "NameType", FALSE, <<>>),
     \* output shapes of the operations
     NameOut   |-> Sh("structure", [Name |-> "NameType"], <<"Name">>, {}, "", FALSE, <<>>),
     NamesOut  |-> Sh("structure", [Names |-> "NameList"], <<"Names">>, {}, "", FALSE, <<>>),
     CountOut  |-> Sh("structure", [Count |-> "CountType"], <<"Count">>, {}, "", FALSE, <<>>),
     IdOut     |-> Sh("structure", [Id |-> "NameType", Name |-> "NameType"], <<"Id", "Name">>,
                      {}, "", FALSE, <<>>),
     PagedOut  |-> Sh("structure", [Names |-> "NameList", Count |-> "CountType"],
                      <<"Names", "Count">>, {}, "", FALSE, <<>>),
     SizeOut   |-> Sh("structure", [Name |-> "NameType", Count |-> "CountType"],
                      <<"Name", "Count">>, {}, "", FALSE, <<>>),
     \* a shape that refers to itself
     Tree      |-> Sh("structure", [Name |-> "NameType", Child |-> "Tree"],
                      <<"Name", "Child">>, {}, "", FALSE, <<>>)]

\* the members a Request shape of the service may declare: member name -> shape
MemberPool ==
    [Name |-> "NameType", State |-> "StateType", MaxItems |-> "CountType",
     Tags |-> "TagList", Sizes |-> "CountList", Filter |-> "TagStruct",
     Owner |-> "NameAlias", Attrs |-> "AttrMap", Marker |-> "NameType"]

\* the order in which the schema lists them (a dict keeps insertion order)
MemberOrder ==
    <<"Name", "State", "MaxItems", "Tags", "Sizes", "Filter", "Owner", "Attrs", "Marker">>

\* the values the collaborator can return for the leaf shapes
LeafValues ==
    [NameType |-> {"a", "b"}, StateType |-> {"on"}, CountType |-> {1, 2},
     TagType |-> {"t"}]

LeafShapeNames == DOMAIN LeafValues

(***************************************************************************)
(* v1 Domain as the constructor sees it: dimension key -> set of images.   *)
(***************************************************************************)
\* Domain.images of the child dimension at key n (created empty when absent)
Images(d, n) == IF n \in DOMAIN d THEN d[n] ELSE {}

(***************************************************************************)
(* Results of construct: status "ok" with the candidate sequence, "none"   *)
(* for a returned None, "typeerror" for a TypeError raised by the call,    *)
(* "lazyerror" for a returned generator that raises TypeError when it is   *)
(* first iterated, "insufficient" for InsufficientMembersException.        *)
(***************************************************************************)
Ok(items) == [status |-> "ok", items |-> items]
NoneResult == [status |-> "none", items |-> <<>>]
TypeErrorResult == [status |-> "typeerror", items |-> <<>>]
LazyErrorResult == [status |-> "lazyerror", items |-> <<>>]
InsufficientResult == [status |-> "insufficient", items |-> <<>>]
NotRun == [status |-> "notrun", items |-> <<>>]

RECURSIVE Product(_, _)
\* itertools.product over params[k], k in keys, zipped with the keys
Product(keys, params) ==
    IF keys = <<>> THEN <<EmptyMap>>
    ELSE LET k == Head(keys)
             rest == Product(Tail(keys), params)
         IN Flatten([i \in 1..Len(params[k]) |->
                        [j \in 1..Len(rest) |-> (k :> params[k][i]) @@ rest[j]]])

\* util.labeled_product of src/aws_service_model/util.py
labeled_product(keys, params, include_empty) ==
    Product(keys, params)
        \o (IF include_empty /\ Len(keys) = 0 THEN <<EmptyMap>> ELSE <<>>)

\* util.labeled_product of src/v2/util.py
labeled_product_v2(keys, params, include_empty) ==
    Product(keys, params)
        \o (IF include_empty /\ keys # <<>> THEN <<EmptyMap>> ELSE <<>>)

AliasConstructMixed(own, wrapped) == Ok(own \o wrapped.items)

\* Alias.construct: the images of the alias's own dimension when there are any,
\* else whatever the wrapped shape's construct returns
AliasConstruct(own, wrapped) == IF own # <<>> THEN Ok(own) ELSE wrapped

RECURSIVE Construct(_, _)
\* v1 <Shape>.construct(domain) for the shape named n
Construct(n, d) ==
    LET sh == ShapeTable[n]
        s == SetToSeq(Images(d, n))
    IN CASE sh.type = "string" ->
              \* "enum" is always a key of self.constraints: without a declared
              \* enum the method returns constraints["enum"], which is None
              IF s # <<>> THEN Ok(s)
              ELSE IF sh.hasEnum THEN Ok(sh.enum) ELSE NoneResult
         [] sh.type \in LeafTypes -> Ok(s)
         [] sh.type = "map" -> Ok(s)
         [] sh.type = "alias" ->
              AliasConstruct(s, Construct(sh.member, d))
         [] sh.type = "list" ->
              \* list(None) and list(<raising generator>) raise at once
              LET m == Construct(sh.member, d)
              IN IF m.status = "ok" THEN Ok(<<m.items>>) ELSE TypeErrorResult
         [] sh.type = "structure" ->
              LET params == [k \in DOMAIN sh.members |-> Construct(sh.members[k], d)]
              IN IF \E k \in DOMAIN params : params[k].status = "typeerror"
                 THEN TypeErrorResult
                 ELSE IF \E k \in DOMAIN params : params[k].status # "ok"
                 THEN LazyErrorResult
                 ELSE Ok(labeled_product(sh.order,
                                         [k \in DOMAIN params |-> params[k].items], FALSE))

RequestMembersAll(r) == r.order

\* Request.members: the declared members without the pagination inputs
RequestMembers(r) == SelectSeq(r.order, LAMBDA k : k \notin r.pagination_inputs)

RequirementsAlwaysSatisfied(required, keys) == TRUE

\* the required-member test of Request.construct
RequirementsSatisfied(required, keys) == required \subseteq Range(keys)

\* v1 Request.construct(domain), iterated to its end
RequestConstruct(r, d) ==
    LET names == RequestMembers(r)
        built == [k \in Range(names) |-> Construct(MemberPool[k], d)]
        kept == SelectSeq(names, LAMBDA k : built[k].status # "none")
    IN IF \E k \in Range(names) : built[k].status = "typeerror"
       THEN TypeErrorResult
       ELSE IF ~RequirementsSatisfied(r.required, kept) THEN InsufficientResult
       ELSE IF \E k \in Range(kept) : built[k].status = "lazyerror"
       THEN TypeErrorResult
       ELSE Ok(labeled_product(kept, [k \in Range(kept) |-> built[k].items],
                               r.required = {}))

RECURSIVE Addressed(_, _)
RECURSIVE AddressedMembers(_, _, _)
\* the shape names v1 <Shape>.construct(domain) passes to domain.dimension for
\* the shape named n: Shape.construct addresses the shape's own dimension, List
\* and Structure construct their members without calling it
Addressed(n, d) ==
    LET sh == ShapeTable[n]
    IN CASE sh.type = "alias" ->
              {n} \cup (IF Images(d, n) # {} THEN {} ELSE Addressed(sh.member, d))
         [] sh.type = "list" -> Addressed(sh.member, d)
         [] sh.type = "structure" -> AddressedMembers(sh.order, sh.members, d)
         [] OTHER -> {n}

\* the dict comprehension over the members of a structure: member by member, up
\* to the first one whose construct raises
AddressedMembers(keys, shapeOf, d) ==
    IF keys = <<>> THEN {}
    ELSE Addressed(shapeOf[Head(keys)], d)
            \cup (IF Construct(shapeOf[Head(keys)], d).status = "typeerror" THEN {}
                  ELSE AddressedMembers(Tail(keys), shapeOf, d))

DimensionsFresh(names, d) == [n \in DOMAIN d \cup names |-> {}]

\* Domain.dimension for each name of names: a child that is absent is created, empty
Dimensions(names, d) == [n \in DOMAIN d \cup names |-> Images(d, n)]

\* the domain after v1 Request.construct(domain): the dimensions it addressed exist
RequestDimensions(r, d) ==
    Dimensions(AddressedMembers(RequestMembers(r), MemberPool, d), d)

(***************************************************************************)
(* v2: entities live in the shape (Shape.E), each with the lineage that    *)
(* produced it; reap reads the values whose lineage passes the filter.     *)
(***************************************************************************)
\* v2 Structure.requirements_met
requirements_met(required, params) == required \subseteq DOMAIN params

lineage_filter_any(l, r) == TRUE

\* the filter build_execution_plan reaps with: "lambda l, r=region: l["region"] == r"
lineage_filter(l, r) == l.region = r

RECURSIVE Reap(_, _, _)
\* v2 <Shape>.reap(lineage_filter) for the shape named n; ents: shape -> entities
Reap(n, ents, rg) ==
    LET sh == ShapeTable[n]
        es == IF n \in DOMAIN ents THEN ents[n] ELSE <<>>
        vals == [i \in 1..Len(SelectSeq(es, LAMBDA x : lineage_filter(x, rg))) |->
                    SelectSeq(es, LAMBDA x : lineage_filter(x, rg))[i].value]
    IN CASE sh.type = "string" -> IF sh.hasEnum THEN sh.enum ELSE vals
         [] sh.type = "list" -> <<Reap(sh.member, ents, rg)>>
         [] sh.type = "structure" ->
              LET keys == SelectSeq(sh.order, LAMBDA k : k \in sh.required)
              IN SelectSeq(labeled_product_v2(keys,
                               [k \in Range(keys) |-> Reap(sh.members[k], ents, rg)], FALSE),
                           LAMBDA i : requirements_met(sh.required, i))
         [] OTHER -> vals

\* v2 Structure.reap of an operation's input structure
StructureReap(r, ents, rg, include_empty) ==
    LET keys == SelectSeq(r.order, LAMBDA k : k \in r.required)
        params == [k \in Range(keys) |-> Reap(MemberPool[k], ents, rg)]
    IN Ok(SelectSeq(labeled_product_v2(keys, params, include_empty),
                    LAMBDA i : requirements_met(r.required, i)))

(***************************************************************************)
(* Entity stores.                                                          *)
(***************************************************************************)
RECURSIVE EntityHash(_, _)
\* Entity.hash of an image of the shape named n: atoms by Python's hash (an int
\* hashes to itself, except -1, which hashes to -2), lists element by element,
\* dicts key by key
EntityHash(n, image) ==
    LET sh == ShapeTable[n]
    IN CASE sh.type = "integer" -> IF image = -1 THEN -2 ELSE image
         [] sh.type = "list" -> [i \in DOMAIN image |-> EntityHash(sh.member, image[i])]
         [] sh.type = "map" -> [k \in DOMAIN image |-> EntityHash(sh.member, image[k])]
         [] sh.type = "structure" ->
              [k \in DOMAIN image |-> IF k \in DOMAIN sh.members
                                       THEN EntityHash(sh.members[k], image[k])
                                       ELSE image[k]]
         [] OTHER -> image

manifest_add(n, entities, image) == entities \cup {image}

\* Domain.manifest into the entity set of one dimension: set.add of an Entity,
\* whose __eq__ and __hash__ are those of Entity.hash(image)
manifest(n, entities, image) ==
    IF \E e \in entities : EntityHash(n, e) = EntityHash(n, image)
    THEN entities
    ELSE entities \cup {image}

\* Shape.populate: domain.dimension(name).manifest(image)
ShapePopulate(n, image, d) ==
    (n :> manifest(n, Images(d, n), image)) @@ d

RECURSIVE Populate(_, _, _)
RECURSIVE PopulateMembers(_, _, _, _)
RECURSIVE PopulateEach(_, _, _)
\* v1 <Shape>.populate(image, domain) for the shape named n
Populate(n, image, d) ==
    LET sh == ShapeTable[n]
        d1 == ShapePopulate(n, image, d)
    IN CASE sh.type = "structure" -> PopulateMembers(sh.order, sh, image, d1)
         [] sh.type = "list" -> PopulateEach(sh.member, image, d1)
         [] sh.type = "map" ->
              LET ks == SetToSeq(DOMAIN image)
              IN PopulateEach(sh.member, [i \in DOMAIN ks |-> image[ks[i]]],
                              PopulateEach(sh.key, ks, d1))
         [] sh.type = "alias" -> Populate(sh.member, image, d1)
         [] OTHER -> d1

\* the member loop of Structure.populate
PopulateMembers(keys, sh, image, d) ==
    IF keys = <<>> THEN d
    ELSE PopulateMembers(Tail(keys), sh, image,
            IF Head(keys) \in DOMAIN image
            THEN Populate(sh.members[Head(keys)], image[Head(keys)], d)
            ELSE d)

\* the element loop of List.populate
PopulateEach(n, values, d) ==
    IF values = <<>> THEN d
    ELSE PopulateEach(n, Tail(values), Populate(n, Head(values), d))

\* the result of a v2 sow: the entity lists, and whether Lineage raised ValueError
Sown(e, raised) == [E |-> e, raised |-> raised]

AppendEntity(n, value, r, e) ==
    (n :> Append(IF n \in DOMAIN e THEN e[n] ELSE <<>>, [value |-> value, region |-> r])) @@ e

RECURSIVE Sow(_, _, _, _, _)
RECURSIVE SowMembers(_, _, _, _, _, _)
RECURSIVE SowEach(_, _, _, _, _)
\* v2 <Shape>.sow(lineage) for the shape named n; value is lineage(), keys the
\* keys of the lineage, r the region it records
Sow(n, value, keys, r, e) ==
    LET sh == ShapeTable[n]
    IN CASE sh.type = "structure" ->
              IF value = EmptyMap THEN Sown(e, FALSE)
              ELSE LET m == SowMembers(sh.order, n, value, keys, r, e)
                   IN IF m.raised THEN m
                      ELSE Sown(AppendEntity(n,
                                   [k \in DOMAIN value \cap DOMAIN sh.members |-> value[k]],
                                   r, m.E), FALSE)
         [] sh.type = "list" ->
              IF value = <<>> THEN Sown(e, FALSE)
              ELSE IF ("list-" \o n) \in keys THEN Sown(e, TRUE)
              ELSE SowEach(sh.member, value, keys \cup {"list-" \o n}, r, e)
         [] sh.type = "map" ->
              IF value = EmptyMap THEN Sown(e, FALSE)
              ELSE Sown(AppendEntity(n, value, r, e), FALSE)
         [] sh.type = "string" ->
              IF value = "" THEN Sown(e, FALSE)
              ELSE Sown(AppendEntity(n, value, r, e), FALSE)
         [] OTHER -> Sown(AppendEntity(n, value, r, e), FALSE)

\* the member loop of v2 Structure.sow
SowMembers(ks, n, value, keys, r, e) ==
    IF ks = <<>> THEN Sown(e, FALSE)
    ELSE IF Head(ks) \notin DOMAIN value THEN SowMembers(Tail(ks), n, value, keys, r, e)
    ELSE IF ("structure-" \o n) \in keys THEN Sown(e, TRUE)
    ELSE LET m == Sow(ShapeTable[n].members[Head(ks)], value[Head(ks)],
                      keys \cup {"structure-" \o n}, r, e)
         IN IF m.raised THEN m ELSE SowMembers(Tail(ks), n, value, keys, r, m.E)

\* the element loop of v2 List.sow
SowEach(n, values, keys, r, e) ==
    IF values = <<>> THEN Sown(e, FALSE)
    ELSE LET m == Sow(n, Head(values), keys, r, e)
         IN IF m.raised THEN m ELSE SowEach(n, Tail(values), keys, r, m.E)

\* the keys of the lineage build_execution_plan sows a response under
RootLineageKeys ==
    {"service_name", "region", "operation_name", "parameters", "method_response"}

\* the values the entity-store specification manifests, per shape
StoreValues ==
    [NameType |-> {"a", "b"}, CountType |-> {-2, -1, 1},
     NameList |-> {<<>>, <<"a", "a">>, <<"b">>},
     CountList |-> {<<-1>>, <<-2>>},
     IdOut |-> {EmptyMap, [Id |-> "a"], [Id |-> "a", Name |-> "a"], [Id |-> "a", Name |-> "b"],
                [Name |-> "b", Extra |-> "x"]},
     \* of the shape that refers to itself: one instance, and one inside another
     Tree |-> {[Name |-> "a"], [Name |-> "a", Child |-> [Name |-> "b"]]}]

\* nothing populated or sown yet
NoHarvest == <<>>

NoTally == [n \in {"NameType", "CountType"} |-> [v \in StoreValues[n] |-> 0]]

StoreEmpty ==
    /\ dom = EmptyMap
    /\ E = EmptyMap
    /\ universe = EmptyMap
    /\ tally = NoTally
    /\ harvested = NoHarvest

BuilderIdle ==
    /\ botoshapes = EmptyMap
    /\ instances = <<>>
    /\ silhouettes = EmptyMap
    /\ S = EmptyMap
    /\ stack = <<>>
    /\ held = {}
    /\ requests = 0

\* no Domain tree and no Universe has been built
\* no Lineage has been constructed
NoCall == [op |-> "", on |-> 0, args |-> <<>>, raised |-> FALSE]

\* no shape has been asked of the service
Unasked == [asked |-> "", by |-> "", result |-> NotRun]

CallIdle ==
    /\ received = <<>>
    /\ response = EmptyMap
    /\ rawshapes = EmptyMap
    /\ resolved = Unasked
    /\ lineages = <<>>
    /\ lastcall = NoCall

DomainIdle ==
    /\ domains = EmptyMap
    /\ direct = EmptyMap
    /\ returned = {}
    /\ dimensions = EmptyMap
    /\ spawned = EmptyMap
    /\ calls = 0

(***************************************************************************)
(* The operations of the modelled service (the schema collaborator's       *)
(* "operations" and "pagination" objects, NONFATAL_EXCEPTIONS, and what    *)
(* the invocation collaborator answers when a call succeeds).              *)
(***************************************************************************)
RequestShape(ms, required, pag) ==
    [order |-> SelectSeq(MemberOrder, LAMBDA k : k \in ms),
     required |-> required, pagination_inputs |-> pag]

NoInput == [order |-> <<>>, required |-> {}, pagination_inputs |-> {}]

Op(hasInput, input, output, paginated, allowed, pages) ==
    [hasInput |-> hasInput, input |-> input, output |-> output,
     paginated |-> paginated, allowed |-> allowed, pages |-> pages]

Operations ==
    [ListNames    |-> Op(FALSE, NoInput, "NameOut", FALSE, {}, <<[Name |-> "a"]>>),
     ListCounts   |-> Op(FALSE, NoInput, "CountOut", FALSE, {}, <<[Count |-> 2]>>),
     ListLimited  |-> Op(TRUE, RequestShape({"MaxItems"}, {}, {}), "NameOut", FALSE,
                         {"ClientError"}, <<[Name |-> "b"]>>),
     ListPaged    |-> Op(TRUE, RequestShape({"Marker", "MaxItems"}, {}, {"Marker", "MaxItems"}),
                         "NamesOut", TRUE, {"ClientError"},
                         <<[Names |-> <<"a">>], [Names |-> <<"b">>]>>),
     GetName      |-> Op(TRUE, RequestShape({"Name"}, {"Name"}, {}), "CountOut", FALSE,
                         {"ClientError"}, <<[Count |-> 1]>>),
     GetTree      |-> Op(TRUE, RequestShape({}, {}, {}), "Tree", FALSE, {},
                         <<[Name |-> "a", Child |-> [Name |-> "b"]]>>),
     DescribeSize |-> Op(TRUE, RequestShape({"MaxItems", "State"}, {"MaxItems"}, {}), "SizeOut",
                         FALSE, {}, <<[Name |-> "b", Count |-> 1]>>),
     CreateName   |-> Op(FALSE, NoInput, "NameOut", FALSE, {}, <<[Name |-> "a"]>>)]

\* the order of the operations in the schema
OperationOrder ==
    <<"CreateName", "DescribeSize", "GetName", "GetTree", "ListCounts", "ListLimited",
      "ListNames", "ListPaged">>

OpNames == Range(OperationOrder)

\* the failure kinds the invocation collaborator can raise
ExceptionKinds == {"ClientError", "Throttling"}

Zero == [o \in OpNames |-> 0]

\* nothing asked yet; resolvedIn: -1 pending, 0 starter phase, k pass k (v2: of the
\* region being crawled); invoked:
\* the region (v2), operation and parameter maps invoked of the last attempt;
\* script: what the collaborator does with every call of an operation when it is
\* deterministic, kind "any" when each call is answered on its own; before: the
\* entities held when the pass under way began
NoHistory ==
    [calls |-> Zero, ok |-> Zero, nonfatal |-> Zero, fatal |-> Zero, attempts |-> Zero,
     resolvedIn |-> [o \in OpNames |-> -1], crashed |-> FALSE,
     invoked |-> [region |-> "", op |-> "", params |-> <<>>],
     script |-> [o \in OpNames |-> [kind |-> "any", after |-> 0]],
     before |-> EmptyMap]

SchedIdle ==
    /\ svc = <<>>
    /\ pending = <<>>
    /\ todo = {}
    /\ successes = {}
    /\ pc = "idle"
    /\ passes = 0
    /\ n0 = 0
    /\ region = 0
    /\ hist = NoHistory

(***************************************************************************)
(* Specification of the constructor: Init draws a Request shape and a      *)
(* domain, the actions apply the constructor of either implementation.     *)
(***************************************************************************)
\* sub-sequences of MemberOrder with at most MaxMembers members
MemberChoices ==
    {ms \in SUBSET Range(MemberOrder) : Cardinality(ms) <= MaxMembers}

\* the Request shapes of the model: declared members, required members, and the
\* pagination inputs (input_token Marker, limit_key MaxItems) of a paginated operation
ValidRequestShapes ==
    UNION {{RequestShape(ms, rq, pg) : rq \in SUBSET ms, pg \in {{}, {"Marker", "MaxItems"}}}
              : ms \in MemberChoices}

\* the values a domain may hold: Alias.populate manifests an image in the alias's
\* own dimension and in the wrapped shape's, so the first is within the second
ValidKnown ==
    {k \in [NameType : SUBSET LeafValues.NameType,
            StateType : SUBSET LeafValues.StateType,
            CountType : SUBSET LeafValues.CountType,
            TagType : SUBSET LeafValues.TagType,
            NameAlias : SUBSET LeafValues.NameType] : k.NameAlias \subseteq k.NameType}

\* the v1 domain holding exactly the known values (one dimension per shape with values)
DomainOf(k) == [n \in {m \in DOMAIN k : k[m] # {}} |-> k[n]]

\* the regions of the modelled service, in the order build_execution_plan visits them
Regions == <<"r1", "r2">>

TheRegion == Regions[1]

\* the v2 entity lists holding exactly the known values, observed in TheRegion
EntitiesOf(k) ==
    [n \in LeafShapeNames |->
        [i \in 1..Cardinality(k[n]) |-> [value |-> SetToSeq(k[n])[i], region |-> TheRegion]]]

ConstructInit ==
    /\ impl \in {"v1", "v2"}
    /\ req \in ValidRequestShapes
    \* botocore schemas, which v2 reads, declare no alias shapes
    /\ impl = "v2" => "Owner" \notin Range(req.order)
    /\ known \in ValidKnown
    /\ impl = "v2" => known.NameAlias = {}
    /\ out = NotRun
    \* the store of the implementation holds the known values
    /\ dom = IF impl = "v1" THEN DomainOf(known) ELSE EmptyMap
    /\ E = IF impl = "v2" THEN EntitiesOf(known) ELSE EmptyMap
    /\ universe = EmptyMap
    /\ tally = NoTally
    /\ harvested = NoHarvest
    /\ SchedIdle
    /\ BuilderIdle
    /\ DomainIdle
    /\ CallIdle

\* Request.construct(domain), iterated to its end: the candidates, and the domain
\* with the dimensions the call addressed
ConstructV1 ==
    /\ impl = "v1"
    /\ out = NotRun
    /\ out' = RequestConstruct(req, dom)
    /\ dom' = RequestDimensions(req, dom)
    /\ UNCHANGED <<impl, callVars, req, known, schedVars, E, universe, tally, harvested,
                   builderVars, domainVars>>

ReapV2 ==
    /\ impl = "v2"
    /\ out = NotRun
    /\ out' = StructureReap(req, E, TheRegion, TRUE)
    /\ UNCHANGED <<impl, callVars, req, known, schedVars, storeVars, builderVars, domainVars>>

ConstructNext == ConstructV1 \/ ReapV2

ConstructSpec == ConstructInit /\ [][ConstructNext]_vars

(***************************************************************************)
(* Claims about the constructor.                                           *)
(***************************************************************************)
\* C1: every parameter map yielded by construct (v1 Request.construct, v2
\* Structure.reap) has all of the shape's required member names among its keys.
C1_RequiredMembersPresent ==
    out.status = "ok" =>
        \A i \in DOMAIN out.items : req.required \subseteq DOMAIN out.items[i]

\* C1 witness: a construct call over a shape with a required member has yielded
\* two or more parameter maps.
C1_Witness ==
    /\ impl = "v1"
    /\ out.status = "ok"
    /\ req.required # {}
    /\ Len(out.items) >= 2

\* C10 (as claimed): for a Request shape with no required members, construct
\* yields a non-empty candidate sequence that includes the empty map.
C10_EmptyMapOffered ==
    (impl = "v1" /\ out.status = "ok" /\ req.required = {}) =>
        (out.items # <<>> /\ EmptyMap \in Range(out.items))

\* C11 (as claimed): whenever a required member of the Request shape has no
\* candidate value in the domain, whatever the member's type, construct signals
\* insufficient-members; it never ends with an empty candidate sequence or with
\* another error.
C11_InsufficientSignalled ==
    (/\ impl = "v1"
     /\ out # NotRun
     /\ \E k \in req.required \ req.pagination_inputs :
            LET c == Construct(MemberPool[k], DomainOf(known))
            IN c.status # "ok" \/ c.items = <<>>)
        => out.status = "insufficient"

\* C13 (as claimed): Request.construct yields exactly the labeled product over the
\* non-pagination members whose own candidate sequence is non-empty, filtered to the
\* maps that contain every required member; a member with no candidate is left out
\* of every map and takes no map away.
C13_ProductOverNonEmptyMembers ==
    (impl = "v1" /\ out # NotRun) =>
        LET d == DomainOf(known)
            names == SelectSeq(RequestMembers(req),
                               LAMBDA k : /\ Construct(MemberPool[k], d).status = "ok"
                                          /\ Construct(MemberPool[k], d).items # <<>>)
            maps == Product(names, [k \in Range(names) |-> Construct(MemberPool[k], d).items])
        IN /\ out.status \in {"ok", "insufficient"}
           /\ Range(out.items) = {i \in Range(maps) : req.required \subseteq DOMAIN i}

\* C14 (as claimed): for a structure with required member Name (string) and optional
\* member Tags (list of string), a domain holding Name values a and b and no value of
\* the list's element shape, construct yields exactly {Name: a} and {Name: b}.
C14_ListMemberOmitted ==
    (/\ out # NotRun
     /\ req = RequestShape({"Name", "Tags"}, {"Name"}, {})
     /\ known.NameType = {"a", "b"}
     /\ known.TagType = {})
        => /\ out.status = "ok"
           /\ Len(out.items) = 2
           /\ Range(out.items) = {[Name |-> "a"], [Name |-> "b"]}

\* the values of member k over the parameter maps construct yielded
Offered(k) == {i[k] : i \in {j \in Range(out.items) : k \in DOMAIN j}}

\* C21: Alias.construct returns the values known under the alias's own name when at
\* least one exists, and otherwise exactly the wrapped shape's candidates; the two
\* pools are never mixed.  Seen through member Owner (an alias of NameType) of a
\* Request whose construct yielded maps.
C21_AliasOwnElseWrapped ==
    (/\ impl = "v1"
     /\ out.status = "ok"
     /\ out.items # <<>>
     /\ "Owner" \in Range(req.order))
        => LET wrapped == Construct("NameType", DomainOf(known))
           IN /\ Construct("NameAlias", DomainOf(known)) =
                    (IF known.NameAlias # {} THEN Ok(SetToSeq(known.NameAlias)) ELSE wrapped)
              /\ Offered("Owner") =
                    (IF known.NameAlias # {} THEN known.NameAlias ELSE Range(wrapped.items))

\* C21 witness: the alias's own dimension holds a, the wrapped shape's holds a and b,
\* and construct has yielded maps for a Request with member Owner.
C21_Witness ==
    /\ impl = "v1"
    /\ out.status = "ok"
    /\ out.items # <<>>
    /\ "Owner" \in Range(req.order)
    /\ known.NameAlias = {"a"}
    /\ known.NameType = {"a", "b"}

\* C22 (as claimed): for every String member of the Request, construct (v1) / reap
\* (v2) of the member's shape returns every value known for the shape; the enum
\* literals are returned only when the shape declares an enum and no value is known;
\* a String shape with no enum and no known value yields an empty candidate sequence.
C22_StringCandidates ==
    out # NotRun =>
        \A k \in Range(RequestMembers(req)) :
            ShapeTable[MemberPool[k]].type = "string" =>
                LET n == MemberPool[k]
                    got == IF impl = "v1" THEN Construct(n, DomainOf(known))
                           ELSE Ok(Reap(n, EntitiesOf(known), TheRegion))
                IN /\ got.status = "ok"
                   /\ Range(got.items) =
                         (IF known[n] # {} THEN known[n]
                          ELSE IF ShapeTable[n].hasEnum THEN Range(ShapeTable[n].enum)
                          ELSE {})

\* C23: for a paginated operation, no parameter map yielded by Request.construct
\* has the operation's input_token or limit_key member among its keys, even when the
\* domain holds values of those members' shapes.
C23_NoPaginationInputs ==
    (impl = "v1" /\ out.status = "ok") =>
        \A i \in DOMAIN out.items : DOMAIN out.items[i] \cap req.pagination_inputs = {}

\* C23 witness: the Request declares a pagination input, the domain holds values of
\* the shape of every pagination input it declares, and construct has yielded a map
\* with a parameter.
C23_Witness ==
    /\ impl = "v1"
    /\ out.status = "ok"
    /\ Range(req.order) \cap req.pagination_inputs # {}
    /\ \A k \in Range(req.order) \cap req.pagination_inputs : known[MemberPool[k]] # {}
    /\ \E i \in DOMAIN out.items : out.items[i] # EmptyMap

\* C29 (as claimed): a call to construct, whether it yields candidates or raises
\* insufficient-members, leaves the dimensions and the entities of the domain
\* exactly as they were.
C29_ConstructReadsOnly ==
    (impl = "v1" /\ out # NotRun) => dom = DomainOf(known)

\* C29 (amended): a call to construct, whether it yields candidates or raises
\* insufficient-members, leaves every entity of the domain as it was and adds none;
\* it may create the dimensions of the shapes it addressed, which are empty.  The
\* v2 reap leaves the entity lists as they were.
C29_ConstructKeepsEntities ==
    out # NotRun =>
        /\ impl = "v1" => /\ DOMAIN DomainOf(known) \subseteq DOMAIN dom
                          /\ \A n \in DOMAIN dom : dom[n] = Images(DomainOf(known), n)
        /\ impl = "v2" => E = EntitiesOf(known)

\* C29 witness: construct has yielded candidates from a domain that holds Name
\* values, and the domain has a dimension it did not have before the call.
C29_Witness ==
    /\ impl = "v1"
    /\ out.status = "ok"
    /\ out.items # <<>>
    /\ known.NameType # {}
    /\ "Name" \in Range(req.order)
    /\ DOMAIN dom # DOMAIN DomainOf(known)

(***************************************************************************)
(* The invocation collaborator and its wrappers.  An outcome is what one   *)
(* call does: kind "ok", or the kind of failure raised, for a paginated    *)
(* call after `after` pages were received.                                 *)
(***************************************************************************)
Outcome(kind, after) == [kind |-> kind, after |-> after]

Outcomes(o) ==
    {Outcome("ok", 0)}
        \cup {Outcome(k, j) : k \in ExceptionKinds,
                              j \in 0..(IF Operations[o].paginated
                                        THEN Len(Operations[o].pages) - 1 ELSE 0)}

\* the outcomes the collaborator may give the n calls of one attempt of o
Answers(h, o, n) ==
    IF h.script[o].kind = "any" THEN [1..n -> Outcomes(o)]
    ELSE {[i \in 1..n |-> h.script[o]]}

\* what a call gave the scheduler: an exception, None, or a response
Raised == [raised |-> TRUE, isNone |-> FALSE, resp |-> EmptyMap]
ReturnedNone == [raised |-> FALSE, isNone |-> TRUE, resp |-> EmptyMap]
Returned(resp) == [raised |-> FALSE, isNone |-> FALSE, resp |-> resp]

careful_dict_update_overwrite(n, first, second) ==
    [k \in DOMAIN first \cup DOMAIN second |->
        IF k \in DOMAIN second THEN second[k] ELSE first[k]]

\* util.careful_dict_update(first, second) for pages of the output shape n
careful_dict_update(n, first, second) ==
    [k \in DOMAIN first \cup DOMAIN second |->
        IF k \notin DOMAIN second THEN first[k]
        ELSE IF k \in DOMAIN first /\ ShapeTable[ShapeTable[n].members[k]].type = "list"
        THEN first[k] \o second[k]
        ELSE second[k]]

RECURSIVE MergePages(_, _, _)
\* the page loop of Operation.call
MergePages(n, ret, pages) ==
    IF pages = <<>> THEN ret
    ELSE MergePages(n, careful_dict_update(n, ret, Head(pages)), Tail(pages))

func_wrapper_reraise(o, outcome) ==
    IF outcome.kind = "ok" THEN Returned(Operations[o].pages[1]) ELSE Raised

\* service.func_wrapper around the client method of operation o
func_wrapper(o, outcome) ==
    IF outcome.kind = "ok" THEN Returned(Operations[o].pages[1])
    ELSE IF outcome.kind \in Operations[o].allowed THEN ReturnedNone
    ELSE Raised

\* service.iter_wrapper: the pages the wrapped paginator yields, and whether it raises
iter_wrapper(o, outcome) ==
    IF outcome.kind = "ok" THEN [pages |-> Operations[o].pages, raised |-> FALSE]
    ELSE [pages |-> SubSeq(Operations[o].pages, 1, outcome.after),
          raised |-> outcome.kind \notin Operations[o].allowed]

\* v1 Operation.call
OperationCall(o, outcome) ==
    IF Operations[o].paginated
    THEN LET it == iter_wrapper(o, outcome)
         IN IF it.raised THEN Raised
            ELSE Returned(MergePages(Operations[o].output, EmptyMap, it.pages))
    ELSE func_wrapper(o, outcome)

(***************************************************************************)
(* Specification of the page loop of Operation.call for a paginated        *)
(* operation with output shape PagedOut: the paginator yields up to        *)
(* MaxPages pages, each merged into ret as it arrives.                     *)
(***************************************************************************)
\* largest number of pages a paginator yields
MaxPages == 3

\* the pages a paginator may yield: each key of the output shape present or not
PageValues ==
    {EmptyMap}
        \cup {[Names |-> ns] : ns \in {<<>>, <<"a">>, <<"b">>}}
        \cup {[Count |-> c] : c \in LeafValues.CountType}
        \cup {[Names |-> ns, Count |-> c] : ns \in {<<>>, <<"a">>, <<"b">>},
                                            c \in LeafValues.CountType}

CallInit ==
    /\ impl = "v1"
    /\ req = NoInput
    /\ known = [n \in LeafShapeNames |-> {}]
    /\ out = NotRun
    /\ received = <<>>
    /\ response = EmptyMap
    /\ rawshapes = EmptyMap
    /\ resolved = Unasked
    /\ lineages = <<>>
    /\ lastcall = NoCall
    /\ SchedIdle
    /\ StoreEmpty
    /\ BuilderIdle
    /\ DomainIdle

\* "for page in pages: careful_dict_update(ret, page)"
NextPage ==
    /\ Len(received) < MaxPages
    /\ \E page \in PageValues :
          /\ received' = Append(received, page)
          /\ response' = careful_dict_update("PagedOut", response, page)
    /\ UNCHANGED <<impl, modelVars, lineageVars, ctorVars, schedVars, storeVars, builderVars,
                   domainVars>>

CallSpec == CallInit /\ [][NextPage]_vars

\* the pages received that contain key k, in page order
PagesWith(k) == SelectSeq(received, LAMBDA page : k \in DOMAIN page)

\* C24: the response of a paginated call is the key-wise merge of its pages in order:
\* a key that is list-valued in every page where it occurs has the concatenation of
\* those lists in page order, every other key the value of the last page that
\* contains it; the response has exactly the keys that occur in some page.
C24_KeywiseMerge ==
    /\ response = MergePages("PagedOut", EmptyMap, received)
    /\ DOMAIN response = UNION {DOMAIN received[i] : i \in DOMAIN received}
    /\ \A k \in DOMAIN response :
          IF ShapeTable[ShapeTable.PagedOut.members[k]].type = "list"
          THEN response[k] = Flatten([i \in DOMAIN PagesWith(k) |-> PagesWith(k)[i][k]])
          ELSE response[k] = PagesWith(k)[Len(PagesWith(k))][k]

\* C24 witness: three pages were merged; Names occurs in all of them, Count in the
\* first two with different values.
C24_Witness ==
    /\ Len(received) = 3
    /\ received[1] = [Names |-> <<"a">>, Count |-> 1]
    /\ received[2] = [Names |-> <<"b">>, Count |-> 2]
    /\ received[3] = [Names |-> <<"a">>]
    /\ response = [Names |-> <<"a", "b", "a">>, Count |-> 2]

(***************************************************************************)
(* Shape Model construction of src/aws_service_model: service.get_shape    *)
(* builds the Shape object of a name and, in its constructor, those of its *)
(* members; Operation.input builds the Request of the operation's input.   *)
(***************************************************************************)
\* the names a schema may declare or refer to; references go from In to M to X
RawNames == <<"In", "M", "X">>

\* the type tags of AWSService.SHAPE_TYPE_MAP
SHAPE_TYPE_MAP == LeafTypes \cup {"list", "map", "string", "structure", "alias"}

\* a raw shape: its type tag, which of the keys "members" / "member" it has, and
\* the shape names those refer to
RawShape(type, keys, refs) == [type |-> type, keys |-> keys, refs |-> refs]

\* the raw shapes the name RawNames[i] may be declared as: a string, a structure
\* with no or one member, a list, or a shape with a type tag that is in no
\* botocore schema, with or without a "members" key
RawChoices(i) ==
    LET later == {RawNames[j] : j \in (i + 1)..Len(RawNames)}
    IN {RawShape("string", {}, <<>>), RawShape("bogus", {}, <<>>),
        RawShape("bogus", {"members"}, <<>>), RawShape("structure", {"members"}, <<>>)}
        \cup {RawShape("structure", {"members"}, <<n>>) : n \in later}
        \cup {RawShape("list", {"member"}, <<n>>) : n \in later}

\* the shape tables of the model: each name declared or missing
RawTables ==
    UNION {{t \in [D -> UNION {RawChoices(i) : i \in DOMAIN RawNames}] :
               \A i \in DOMAIN RawNames : RawNames[i] \in D => t[RawNames[i]] \in RawChoices(i)}
              : D \in SUBSET Range(RawNames)}

get_shape_alias_unknown(n) == RawShape("bogus", {}, <<>>)

\* special_cases.get_shape_alias: SHAPE_ALIASES registers nothing, the default is
\* a string shape
get_shape_alias(n) == RawShape("string", {}, <<>>)

\* AWSService.raw_get_shape
raw_get_shape(n, t) == IF n \in DOMAIN t THEN t[n] ELSE get_shape_alias(n)

RECURSIVE get_shape(_, _)
RECURSIVE ShapeInit(_, _, _)
\* AWSService.get_shape: SHAPE_TYPE_MAP.get(tag) is None for an unknown tag, and
\* calling it raises TypeError
get_shape(n, t) ==
    IF raw_get_shape(n, t).type \notin SHAPE_TYPE_MAP
    THEN [status |-> "TypeError", items |-> <<>>]
    ELSE ShapeInit(raw_get_shape(n, t).type, n, t)

\* <class>.__init__(shape_name, service) for the class registered under tag cls:
\* Structure reads self.shape["members"], List self.shape["member"], and both
\* construct their members through service.get_shape
ShapeInit(cls, n, t) ==
    LET raw == raw_get_shape(n, t)
        kids == [i \in DOMAIN raw.refs |-> get_shape(raw.refs[i], t)]
        failed == {i \in DOMAIN kids : kids[i].status # "ok"}
    IN IF cls \notin {"structure", "list"}
       THEN Ok(<<[name |-> n, cls |-> cls, kids |-> <<>>]>>)
       ELSE IF (IF cls = "structure" THEN "members" ELSE "member") \notin raw.keys
       THEN [status |-> "KeyError", items |-> <<>>]
       ELSE IF failed # {}
       THEN kids[CHOOSE i \in failed : \A j \in failed : i <= j]
       ELSE Ok(<<[name |-> n, cls |-> cls,
                  kids |-> [i \in DOMAIN kids |-> kids[i].items[1]]]>>)

ModelInit ==
    /\ impl \in {"v1", "current"}
    /\ req = NoInput
    /\ known = [n \in LeafShapeNames |-> {}]
    /\ out = NotRun
    /\ received = <<>>
    /\ response = EmptyMap
    /\ rawshapes \in RawTables
    /\ resolved = Unasked
    /\ lineages = <<>>
    /\ lastcall = NoCall
    /\ SchedIdle
    /\ StoreEmpty
    /\ BuilderIdle
    /\ DomainIdle

\* service.get_shape(n), as the constructors of other shapes call it
GetShape ==
    /\ resolved = Unasked
    /\ \E n \in Range(RawNames) :
          resolved' = [asked |-> n, by |-> "get_shape", result |-> get_shape(n, rawshapes)]
    /\ UNCHANGED <<impl, mergeVars, lineageVars, rawshapes, ctorVars, schedVars, storeVars,
                   builderVars, domainVars>>

\* Operation.input() of an operation whose input is the shape named n: Request(n, ...)
OperationInput ==
    /\ resolved = Unasked
    /\ \E n \in Range(RawNames) :
          resolved' = [asked |-> n, by |-> "input",
                       result |-> ShapeInit("structure", n, rawshapes)]
    /\ UNCHANGED <<impl, mergeVars, lineageVars, rawshapes, ctorVars, schedVars, storeVars,
                   builderVars, domainVars>>

ModelNext == GetShape \/ OperationInput

ModelSpec == ModelInit /\ [][ModelNext]_vars

RECURSIVE Referenced(_)
\* the shape names reached from n through the references of the declared shapes
Referenced(n) ==
    {n} \cup (IF n \in DOMAIN rawshapes
              THEN UNION {Referenced(rawshapes[n].refs[i]) : i \in DOMAIN rawshapes[n].refs}
              ELSE {})

RECURSIVE Nodes(_)
\* the Shape objects of a built shape: itself and those of its members
Nodes(shape) == {shape} \cup UNION {Nodes(shape.kids[i]) : i \in DOMAIN shape.kids}

MaxLineages == 2

\* the argument tuples Lineage(*args) is called with: up to two (key, value) steps
LineageArgs ==
    LET steps == {"service_name", "region", "list-L"} \X {"x", "y"}
    IN UNION {[1..k -> steps] : k \in 0..2}

LineageUnchecked(args) == [raised |-> FALSE, args |-> args]

\* Lineage.__init__: "assert len(set([a[0] for a in args])) == len(args)", any
\* failure of which is raised as ValueError; else self.args = args
Lineage(args) ==
    IF Cardinality({args[i][1] : i \in DOMAIN args}) = Len(args)
    THEN [raised |-> FALSE, args |-> args]
    ELSE [raised |-> TRUE, args |-> <<>>]

\* Lineage.append: "return Lineage(*(self.args + (v, )))"
append(self, v) == Lineage(self \o <<v>>)

LineageInit ==
    /\ impl = "v2"
    /\ req = NoInput
    /\ known = [n \in LeafShapeNames |-> {}]
    /\ out = NotRun
    /\ received = <<>>
    /\ response = EmptyMap
    /\ rawshapes = EmptyMap
    /\ resolved = Unasked
    /\ lineages = <<>>
    /\ lastcall = NoCall
    /\ SchedIdle
    /\ StoreEmpty
    /\ BuilderIdle
    /\ DomainIdle

\* the object a call returned, if it returned one, joins those that exist
Returns(op, on, args, r) ==
    /\ lineages' = IF r.raised THEN lineages ELSE Append(lineages, r.args)
    /\ lastcall' = [op |-> op, on |-> on, args |-> args, raised |-> r.raised]

\* Lineage(*args)
LineageCall ==
    /\ Len(lineages) < MaxLineages
    /\ \E args \in LineageArgs : Returns("init", 0, args, Lineage(args))
    /\ UNCHANGED <<impl, mergeVars, modelVars, ctorVars, schedVars, storeVars, builderVars,
                   domainVars>>

\* lineages[i].append(v)
AppendCall ==
    /\ Len(lineages) < MaxLineages
    /\ \E i \in DOMAIN lineages :
          \E v \in {a[1] : a \in {b \in LineageArgs : Len(b) = 1}} :
              Returns("append", i, lineages[i] \o <<v>>, append(lineages[i], v))
    /\ UNCHANGED <<impl, mergeVars, modelVars, ctorVars, schedVars, storeVars, builderVars,
                   domainVars>>

LineageNext == LineageCall \/ AppendCall

LineageSpec == LineageInit /\ [][LineageNext]_vars

\* the keys of the steps args are pairwise distinct
DistinctKeys(args) ==
    \A i, j \in DOMAIN args : args[i][1] = args[j][1] => i = j

\* C27: every Lineage that exists has pairwise-distinct step keys; construction and
\* append raise exactly when a key would occur twice; and a call, whether it returns
\* or raises, leaves every Lineage that exists, the one append was called on
\* included, as it was.
C27_LineageKeysDistinct ==
    /\ [](\A i \in DOMAIN lineages : DistinctKeys(lineages[i]))
    /\ [](lastcall # NoCall => (lastcall.raised <=> ~DistinctKeys(lastcall.args)))
    /\ [][/\ \A i \in DOMAIN lineages : lineages'[i] = lineages[i]
           /\ (lastcall'.raised => lineages' = lineages)
           /\ (~lastcall'.raised => lineages' = Append(lineages, lastcall'.args))]_vars

\* C27 witness: append was called on a Lineage of two steps with a step whose key it
\* already has; the call raised, and the Lineage still has its two steps.
C27_Witness ==
    /\ lastcall.op = "append"
    /\ lastcall.raised
    /\ Len(lineages[lastcall.on]) = 2
    /\ Len(lastcall.args) = 3
    /\ lastcall.args[3][1] = lineages[lastcall.on][1][1]
    /\ lastcall.args[3][2] # lineages[lastcall.on][1][2]

(***************************************************************************)
(* src/grump.py: the operations it works on.                               *)
(***************************************************************************)
StartsWith(name, prefix) ==
    Len(name) >= Len(prefix) /\ SubSeq(name, 1, Len(prefix)) = prefix

\* grump.read_only_op_filter
read_only_op_filter(o) ==
    StartsWith(o, "List") \/ StartsWith(o, "Describe") \/ StartsWith(o, "Get")

\* AWSService.get_operations: List* first, Get* next, Describe* last
get_operations(ops) ==
    SelectSeq(ops, LAMBDA o : StartsWith(o, "List"))
        \o SelectSeq(ops, LAMBDA o : StartsWith(o, "Get"))
        \o SelectSeq(ops, LAMBDA o : StartsWith(o, "Describe"))

all_operations(ops) == ops

\* read_only_operations as __main__ first builds it
read_only_operations(ops) == SelectSeq(get_operations(ops), read_only_op_filter)

\* Request.requirements() == dict(), also true of EmptyStructure
IsStarter(o) == Operations[o].input.required = {}

\* starter_ops
starter_ops(ops) == SelectSeq(read_only_operations(ops), IsStarter)

\* op.input().construct(domain), iterated to its end
InputConstruct(o, d) ==
    IF Operations[o].hasInput THEN RequestConstruct(Operations[o].input, d)
    ELSE Ok(<<EmptyMap>>)

\* the domain after op.input().construct(domain); EmptyStructure.construct reads
\* no domain
InputDimensions(o, d) ==
    IF Operations[o].hasInput THEN RequestDimensions(Operations[o].input, d) ELSE d

Remove(seq, o) == SelectSeq(seq, LAMBDA x : x # o)

\* the first operation of seq that is still to attempt
FirstTodo(seq, td) == seq[CHOOSE i \in DOMAIN seq :
                            /\ seq[i] \in td
                            /\ \A j \in 1..(i - 1) : seq[j] \notin td]

\* the effect of one attempt, before any call
NoCalls(d) ==
    [dom |-> d, success |-> FALSE, raised |-> FALSE,
     calls |-> 0, ok |-> 0, nonfatal |-> 0, fatal |-> 0, params |-> <<>>]

NextCandidateLive(o, cs, i, d) ==
    IF impl = "v1" /\ InputConstruct(o, d).status = "ok"
                  /\ i <= Len(InputConstruct(o, d).items)
    THEN InputConstruct(o, d).items[i]
    ELSE cs[i]

\* next(population): candidate i of the attempt of o.  labeled_product hands its
\* iterables to itertools.product when the first candidate is requested, and
\* itertools.product reads each of them to its end before it yields: cs is the
\* product over the entities of that moment, whatever the entities d are by now
NextCandidate(o, cs, i, d) == cs[i]

RECURSIVE ShapeBuilds(_, _)
\* service.get_shape(n) returns: Structure.__init__ and List.__init__ construct the
\* shapes they refer to, so the construction of a shape that refers to itself, inside
\* the shapes named in above, does not end (RecursionError)
ShapeBuilds(n, above) ==
    /\ n \notin above
    /\ \A m \in (IF ShapeTable[n].type = "structure" THEN Range(ShapeTable[n].members)
                  ELSE IF ShapeTable[n].type \in {"list", "alias"} THEN {ShapeTable[n].member}
                  ELSE IF ShapeTable[n].type = "map"
                  THEN {ShapeTable[n].key, ShapeTable[n].member}
                  ELSE {}) : ShapeBuilds(m, above \cup {n})

RECURSIVE RunCalls(_, _, _, _, _)
\* "for params in population: resp = op.call(params); if resp is not None:
\* op.output().populate(resp, D)" from candidate i on; oc[i] is the collaborator's
\* outcome for candidate i.  The counters nonfatal and fatal count the failures the
\* collaborator raised, by whether their kind is registered for o.
RunCalls(o, cs, oc, i, acc) ==
    IF i > Len(cs) \/ acc.raised THEN acc
    ELSE LET r == OperationCall(o, oc[i])
             nf == IF oc[i].kind \in Operations[o].allowed THEN 1 ELSE 0
             ft == IF oc[i].kind \notin Operations[o].allowed \cup {"ok"} THEN 1 ELSE 0
             counted == [acc EXCEPT !.calls = @ + 1, !.nonfatal = @ + nf, !.fatal = @ + ft,
                                    !.params = Append(@, NextCandidate(o, cs, i, acc.dom))]
         IN RunCalls(o, cs, oc, i + 1,
                IF r.raised THEN [counted EXCEPT !.raised = TRUE]
                ELSE IF r.isNone THEN counted
                ELSE IF ~ShapeBuilds(Operations[o].output, {})
                THEN [counted EXCEPT !.raised = TRUE]
                ELSE [counted EXCEPT !.dom = Populate(Operations[o].output, r.resp, @),
                                     !.success = TRUE, !.ok = @ + 1])

\* the history after an attempt of o with effect r
Record(h, o, r) ==
    [h EXCEPT !.calls[o] = @ + r.calls, !.ok[o] = @ + r.ok,
              !.nonfatal[o] = @ + r.nonfatal, !.fatal[o] = @ + r.fatal,
              !.attempts[o] = @ + 1,
              !.invoked = [region |-> IF impl = "v2" THEN Regions[region] ELSE "",
                           op |-> o, params |-> r.params]]

Resolve(h, ops, k) ==
    [h EXCEPT !.resolvedIn = [o \in OpNames |-> IF o \in ops THEN k ELSE @[o]]]

(***************************************************************************)
(* src/grump.py __main__: the starter phase and the fixpoint loop.  One    *)
(* action is one attempt of one operation: construction, every call, every *)
(* harvest, and the bookkeeping the code does before the next attempt.     *)
(***************************************************************************)
\* the scheduler's position: pending, todo, successes, pc, passes, and the
\* operations removed from pending on the way there
At(pend, td, succ, where, ps, gone) ==
    [pending |-> pend, todo |-> td, successes |-> succ, pc |-> where,
     passes |-> ps, gone |-> gone]

\* "while read_only_operations != []": the test before pass ps + 1
WhileTest(pend, ps, gone) ==
    IF pend = <<>> THEN At(pend, {}, {}, "done", ps, gone)
    ELSE At(pend, Range(pend), {}, "loop", ps + 1, gone)

EndPassNoBreak(pend, succ, ps) ==
    WhileTest(SelectSeq(pend, LAMBDA o : o \notin succ), ps, succ)

\* the end of a pass of src/grump.py: remove the successes, break when there are none
EndPass(pend, succ, ps) ==
    IF succ = {} THEN At(pend, {}, {}, "done", ps, {})
    ELSE WhileTest(SelectSeq(pend, LAMBDA o : o \notin succ), ps, succ)

AfterAttemptOnePass(pend, td, succ, ps) ==
    IF td # {} THEN At(pend, td, succ, "loop", ps, {}) ELSE At(pend, {}, {}, "done", ps, {})

\* after one attempt of a pass: the next operation of the pass, or the end of the pass
AfterAttempt(pend, td, succ, ps) ==
    IF td # {} THEN At(pend, td, succ, "loop", ps, {}) ELSE EndPass(pend, succ, ps)

StarterRemoveAlways(pend, o, success) == Remove(pend, o)

\* "if success: read_only_operations.remove(op)"
StarterRemove(pend, o, success) == IF success THEN Remove(pend, o) ELSE pend

\* after the attempt of a starter: the next starter, or the first test of the loop
AfterStarter(pend, td) ==
    IF td # {} THEN At(pend, td, {}, "starter", 0, {}) ELSE WhileTest(pend, 0, {})

Goto(at) ==
    /\ pending' = at.pending
    /\ todo' = at.todo
    /\ successes' = at.successes
    /\ pc' = at.pc
    /\ passes' = at.passes

\* an exception leaves __main__: nothing after the raise runs
Abort(h) ==
    /\ pc' = "aborted"
    /\ hist' = h
    /\ UNCHANGED <<pending, todo, successes, passes>>

GrumpInit ==
    /\ impl = "v1"
    /\ region = 0
    /\ hist = NoHistory
    /\ StoreEmpty
    /\ BuilderIdle
    /\ DomainIdle
    /\ CallIdle
    /\ LET at == AfterStarter(read_only_operations(svc), Range(starter_ops(svc)))
       IN /\ pending = at.pending
          /\ todo = at.todo
          /\ successes = at.successes
          /\ pc = at.pc
          /\ passes = at.passes
          /\ n0 = IF at.pc = "starter" THEN 0 ELSE Len(at.pending)

\* one starter: lines 46-61 of src/grump.py
StarterAttempt ==
    /\ impl = "v1"
    /\ pc = "starter"
    /\ \E o \in {FirstTodo(starter_ops(svc), todo)} :
       \E c \in {InputConstruct(o, dom)} :
       \E d0 \in {InputDimensions(o, dom)} :
          IF c.status # "ok"
          THEN /\ Abort([Record(hist, o, NoCalls(d0)) EXCEPT !.crashed = TRUE])
               /\ dom' = d0
               /\ UNCHANGED n0
          ELSE \E oc \in Answers(hist, o, Len(c.items)) :
               \E r \in {RunCalls(o, c.items, oc, 1, NoCalls(d0))} :
               \E at \in {AfterStarter(StarterRemove(pending, o, r.success), todo \ {o})} :
                    /\ dom' = r.dom
                    /\ IF r.raised
                       THEN Abort(Record(hist, o, r)) /\ UNCHANGED n0
                       ELSE /\ Goto(at)
                            /\ n0' = IF at.pc = "starter" THEN 0 ELSE Len(at.pending)
                            /\ hist' = [Resolve(Record(hist, o, r),
                                                IF r.success THEN {o} ELSE {}, 0)
                                          EXCEPT !.before = r.dom]
    /\ UNCHANGED <<impl, callVars, svc, region, E, universe, tally, harvested, ctorVars, builderVars,
                   domainVars>>

CaughtNever(status) == FALSE

\* "except InsufficientMembersException as e" around one operation of a pass
Caught(status) == status = "insufficient"

\* the attempt of operation o in a pass: lines 66-79, and lines 81-87 after the last
\* operation of the pass
Attempt(o) ==
    /\ impl = "v1"
    /\ pc = "loop"
    /\ \E c \in {InputConstruct(o, dom)} :
       \E d0 \in {InputDimensions(o, dom)} :
          IF c.status # "ok" /\ ~Caught(c.status)
          THEN /\ Abort([Record(hist, o, NoCalls(d0)) EXCEPT !.crashed = TRUE])
               /\ dom' = d0
          ELSE \E oc \in Answers(hist, o, Len(c.items)) :
               \E r \in {RunCalls(o, c.items, oc, 1, NoCalls(d0))} :
               \E at \in {AfterAttempt(pending, todo \ {o},
                                        IF r.success THEN successes \cup {o} ELSE successes,
                                        passes)} :
                    /\ dom' = r.dom
                    /\ IF r.raised
                       THEN Abort(Record(hist, o, r))
                       ELSE /\ Goto(at)
                            /\ hist' = [Resolve(Record(hist, o, r), at.gone, passes)
                                          EXCEPT !.before = IF at.passes = passes THEN @
                                                            ELSE r.dom]
    /\ UNCHANGED <<impl, callVars, svc, region, n0, E, universe, tally, harvested, ctorVars,
                   builderVars, domainVars>>

\* "for rop in read_only_operations": the operations of a pass in the order of the list
PassAttempt == pc = "loop" /\ Attempt(FirstTodo(pending, todo))

(***************************************************************************)
(* src/v2/aws_api_model.py build_execution_plan: per region, the fixpoint  *)
(* loop over ops_remaining.  There is no starter phase, no allow-list and  *)
(* no pagination; every exception of a call or of sow is caught.           *)
(***************************************************************************)
\* the op_filter build_execution_plan is given: the read-only filter of v2/grump.py
op_filter(o) == read_only_op_filter(o)

ops_remaining(ops) == SelectSeq(ops, op_filter)

OutcomesV2 == {Outcome("ok", 0)} \cup {Outcome(k, 0) : k \in ExceptionKinds}

NoCallsV2(e) ==
    [E |-> e, success |-> FALSE, raised |-> FALSE,
     calls |-> 0, ok |-> 0, nonfatal |-> 0, fatal |-> 0, params |-> <<>>]

RECURSIVE RunCallsV2(_, _, _, _, _, _)
\* "for params in in_shape.reap(...): try: response = func(**params);
\* out_shape.sow(...); ops_succeeded.add(op_name) except Exception: pass"
RunCallsV2(o, cs, oc, i, rg, acc) ==
    IF i > Len(cs) THEN acc
    ELSE RunCallsV2(o, cs, oc, i + 1, rg,
            IF oc[i].kind # "ok"
            THEN [acc EXCEPT !.calls = @ + 1, !.fatal = @ + 1,
                             !.params = Append(@, NextCandidate(o, cs, i, acc.E))]
            ELSE LET m == Sow(Operations[o].output, Operations[o].pages[1],
                              RootLineageKeys, rg, acc.E)
                 IN [acc EXCEPT !.E = m.E, !.calls = @ + 1, !.ok = @ + 1,
                                !.success = @ \/ ~m.raised,
                                !.params = Append(@, NextCandidate(o, cs, i, acc.E))])

EndPassV2Keep(pend, succ, ps) ==
    IF succ = {} THEN At(pend, {}, {}, "done", ps, {}) ELSE WhileTest(pend, ps, succ)

\* the end of a pass of build_execution_plan
EndPassV2(pend, succ, ps) ==
    IF succ = {} THEN At(pend, {}, {}, "done", ps, {})
    ELSE WhileTest(SelectSeq(pend, LAMBDA o : o \notin succ), ps, succ)

AfterAttemptV2(pend, td, succ, ps) ==
    IF td # {} THEN At(pend, td, succ, "loop", ps, {}) ELSE EndPassV2(pend, succ, ps)

PlanInit ==
    /\ impl = "v2"
    /\ hist = NoHistory
    /\ StoreEmpty
    /\ BuilderIdle
    /\ DomainIdle
    /\ CallIdle
    /\ LET at == WhileTest(ops_remaining(svc), 0, {})
       IN /\ pending = at.pending
          /\ todo = at.todo
          /\ successes = at.successes
          /\ pc = at.pc
          /\ passes = at.passes
          /\ n0 = Len(at.pending)
          /\ region = IF at.pc = "done" THEN Len(Regions) ELSE 1

\* one operation of one pass: lines 119-142, and lines 143-150 after the last one;
\* when the loop of a region ends, the loop of the next region begins
PlanAttempt ==
    /\ impl = "v2"
    /\ pc = "loop"
    /\ \E o \in todo :
         IF ~Operations[o].hasInput
         THEN \* self.U[service_name][None] raises outside the try
              /\ Abort([Record(hist, o, NoCallsV2(E)) EXCEPT !.crashed = TRUE])
              /\ UNCHANGED <<E, region, n0>>
         ELSE \E c \in {StructureReap(Operations[o].input, E, Regions[region], TRUE)} :
              \E oc \in [1..Len(c.items) -> OutcomesV2] :
              \E r \in {RunCallsV2(o, c.items, oc, 1, Regions[region], NoCallsV2(E))} :
              \E at \in {AfterAttemptV2(pending, todo \ {o},
                                 IF r.success THEN successes \cup {o} ELSE successes,
                                 passes)} :
              \E next \in {WhileTest(ops_remaining(svc), 0, {})} :
                      /\ E' = r.E
                      /\ hist' = [Resolve(Record(hist, o, r), at.gone, passes)
                                    EXCEPT !.before =
                                               IF \/ at.pc = "loop" /\ at.passes # passes
                                                  \/ at.pc = "done" /\ region < Len(Regions)
                                               THEN r.E ELSE @,
                                           !.resolvedIn =
                                               IF at.pc = "done" /\ region < Len(Regions)
                                               THEN [p \in OpNames |-> -1] ELSE @]
                      /\ IF at.pc = "done" /\ region < Len(Regions)
                         THEN Goto(next) /\ region' = region + 1 /\ n0' = Len(next.pending)
                         ELSE Goto(at) /\ UNCHANGED <<region, n0>>
    /\ UNCHANGED <<impl, callVars, svc, dom, universe, tally, harvested, ctorVars, builderVars,
                   domainVars>>

(***************************************************************************)
(* Specification of the schedulers.                                        *)
(***************************************************************************)
\* largest number of operations the modelled service declares
MaxOps == 3

Services ==
    {SelectSeq(OperationOrder, LAMBDA o : o \in chosen) :
        chosen \in {c \in SUBSET OpNames : Cardinality(c) <= MaxOps}}

SchedInit ==
    /\ svc \in Services
    /\ req = NoInput
    /\ known = [n \in LeafShapeNames |-> {}]
    /\ out = NotRun
    /\ \/ GrumpInit
       \/ PlanInit

SchedNext == StarterAttempt \/ PassAttempt \/ PlanAttempt

SchedSpec == SchedInit /\ [][SchedNext]_vars

(***************************************************************************)
(* The fixpoint loop of src/grump.py under a deterministic collaborator,   *)
(* with the operations of a pass attempted in any order: what the loop     *)
(* does when the list read_only_operations is ordered otherwise than       *)
(* get_operations orders it.                                               *)
(***************************************************************************)
\* largest number of operations of a service whose passes are reordered
MaxOrderOps == 4

OrderServices ==
    {SelectSeq(OperationOrder, LAMBDA o : o \in chosen) :
        chosen \in {c \in SUBSET OpNames : Cardinality(c) <= MaxOrderOps}}

RECURSIVE Scripts(_)
\* the deterministic collaborators of the operations ops: one outcome per operation,
\* given to every call of it
Scripts(ops) ==
    IF ops = <<>> THEN {[o \in OpNames |-> Outcome("ok", 0)]}
    ELSE {[sc EXCEPT ![Head(ops)] = a] : sc \in Scripts(Tail(ops)), a \in Outcomes(Head(ops))}

RECURSIVE InListOrder(_, _, _)
\* the domain __main__ ends with from position at and domain d, when the collaborator
\* follows h.script and every pass follows the list of get_operations
InListOrder(d, at, h) ==
    IF at.pc \notin {"starter", "loop"} THEN d
    ELSE LET starter == at.pc = "starter"
             o == FirstTodo(IF starter THEN starter_ops(svc) ELSE at.pending, at.todo)
             c == InputConstruct(o, d)
             d0 == InputDimensions(o, d)
             oc == CHOOSE f \in Answers(h, o, Len(c.items)) : TRUE
             r == RunCalls(o, c.items, oc, 1, NoCalls(d0))
         IN IF c.status # "ok" /\ (starter \/ ~Caught(c.status)) THEN d0
            ELSE IF r.raised THEN r.dom
            ELSE InListOrder(r.dom,
                    IF starter
                    THEN AfterStarter(StarterRemove(at.pending, o, r.success), at.todo \ {o})
                    ELSE AfterAttempt(at.pending, at.todo \ {o},
                                      IF r.success THEN at.successes \cup {o}
                                      ELSE at.successes,
                                      at.passes),
                    h)

OrderInit ==
    /\ svc \in OrderServices
    /\ req = NoInput
    /\ known = [n \in LeafShapeNames |-> {}]
    /\ out = NotRun
    /\ impl = "v1"
    /\ region = 0
    /\ hist \in {[NoHistory EXCEPT !.script = sc] : sc \in Scripts(svc)}
    /\ StoreEmpty
    /\ BuilderIdle
    /\ DomainIdle
    /\ CallIdle
    /\ LET at == AfterStarter(read_only_operations(svc), Range(starter_ops(svc)))
       IN /\ pending = at.pending
          /\ todo = at.todo
          /\ successes = at.successes
          /\ pc = at.pc
          /\ passes = at.passes
          /\ n0 = IF at.pc = "starter" THEN 0 ELSE Len(at.pending)

\* one operation of one pass, whichever of those still to attempt comes next
AnyOrderAttempt == pc = "loop" /\ \E o \in todo : Attempt(o)

OrderNext == StarterAttempt \/ AnyOrderAttempt

OrderSpec == OrderInit /\ [][OrderNext]_vars

(***************************************************************************)
(* Specification of the entity stores: values are manifested into the v1   *)
(* Domain (impl "v1"), spawned into the Universe of the current shapes     *)
(* module (impl "current"), or sown into the v2 entity lists (impl "v2").  *)
(***************************************************************************)
\* largest number of leaf values the entity-store specification manifests before
\* its last populate
MaxManifests == 3

\* Universe.spawn(dimension, species, image, hashable) within the dimension of the
\* service; a species is a Python set or a Python list, decided when it is created
spawn(u, species, image, hashable) ==
    LET spec == IF species \in DOMAIN u THEN u[species]
                ELSE [isSet |-> hashable, set |-> {}, list |-> <<>>]
    IN (species :> IF spec.isSet THEN [spec EXCEPT !.set = @ \cup {image}]
                   ELSE [spec EXCEPT !.list = Append(@, image)]) @@ u

RECURSIVE UniversePopulate(_, _, _)
RECURSIVE UniversePopulateEach(_, _, _)
RECURSIVE UniversePopulateMembers(_, _, _, _)
\* <Shape>.populate(image, universe) of the current shapes module, for structures,
\* lists and leaves
UniversePopulate(n, image, u) ==
    CASE ShapeTable[n].type = "structure" ->
           UniversePopulateMembers(ShapeTable[n].order, n, image, spawn(u, n, image, FALSE))
      [] ShapeTable[n].type = "list" ->
           UniversePopulateEach(ShapeTable[n].member, image, spawn(u, n, image, FALSE))
      [] OTHER -> spawn(u, n, image, TRUE)

\* the member loop of Structure.populate
UniversePopulateMembers(keys, n, image, u) ==
    IF keys = <<>> THEN u
    ELSE UniversePopulateMembers(Tail(keys), n, image,
            IF Head(keys) \in DOMAIN image
            THEN UniversePopulate(ShapeTable[n].members[Head(keys)], image[Head(keys)], u)
            ELSE u)

\* the element loop of List.populate
UniversePopulateEach(n, values, u) ==
    IF values = <<>> THEN u
    ELSE UniversePopulateEach(n, Tail(values), UniversePopulate(n, Head(values), u))

RECURSIVE Tally(_, _, _)
RECURSIVE TallyEach(_, _, _)
RECURSIVE TallyMembers(_, _, _, _)
\* the tally after populate / sow of image for the shape named n
Tally(n, image, t) ==
    CASE ShapeTable[n].type = "structure" ->
           TallyMembers(ShapeTable[n].order, n, image, t)
      [] ShapeTable[n].type = "list" -> TallyEach(ShapeTable[n].member, image, t)
      [] OTHER -> [t EXCEPT ![n][image] = @ + 1]

TallyEach(n, values, t) ==
    IF values = <<>> THEN t ELSE TallyEach(n, Tail(values), Tally(n, Head(values), t))

TallyMembers(keys, n, image, t) ==
    IF keys = <<>> THEN t
    ELSE TallyMembers(Tail(keys), n, image,
            IF Head(keys) \in DOMAIN image
            THEN Tally(ShapeTable[n].members[Head(keys)], image[Head(keys)], t)
            ELSE t)

RECURSIVE Sum(_, _)
Sum(f, keys) ==
    IF keys = {} THEN 0
    ELSE LET k == CHOOSE x \in keys : TRUE IN f[k] + Sum(f, keys \ {k})

TallyTotal == Sum(tally.NameType, DOMAIN tally.NameType)
                  + Sum(tally.CountType, DOMAIN tally.CountType)

StoreInit ==
    /\ impl \in {"v1", "current", "v2"}
    /\ req = NoInput
    /\ known = [n \in LeafShapeNames |-> {}]
    /\ out = NotRun
    /\ SchedIdle
    /\ StoreEmpty
    /\ BuilderIdle
    /\ DomainIdle
    /\ CallIdle

\* v1: <Shape>.populate(image, domain), which manifests into the Domain
ManifestDomain ==
    /\ impl = "v1"
    /\ TallyTotal < MaxManifests
    /\ Len(harvested) < MaxManifests
    /\ \E n \in {m \in DOMAIN StoreValues : ShapeBuilds(m, {})} : \E v \in StoreValues[n] :
          /\ dom' = Populate(n, v, dom)
          /\ tally' = Tally(n, v, tally)
          /\ harvested' = Append(harvested, [shape |-> n, image |-> v])
    /\ UNCHANGED <<impl, callVars, ctorVars, schedVars, E, universe, builderVars, domainVars>>

\* current: <Shape>.populate(image, universe), which spawns into the Universe
SpawnUniverse ==
    /\ impl = "current"
    /\ TallyTotal < MaxManifests
    /\ Len(harvested) < MaxManifests
    /\ \E n \in {m \in DOMAIN StoreValues : ShapeBuilds(m, {})} : \E v \in StoreValues[n] :
          /\ universe' = UniversePopulate(n, v, universe)
          /\ tally' = Tally(n, v, tally)
          /\ harvested' = Append(harvested, [shape |-> n, image |-> v])
    /\ UNCHANGED <<impl, callVars, ctorVars, schedVars, dom, E, builderVars, domainVars>>

\* v2: <Shape>.sow(lineage)
SowEntity ==
    /\ impl = "v2"
    /\ TallyTotal < MaxManifests
    /\ Len(harvested) < MaxManifests
    /\ \E n \in DOMAIN StoreValues : \E v \in StoreValues[n] :
          /\ E' = Sow(n, v, RootLineageKeys, TheRegion, E).E
          /\ tally' = Tally(n, v, tally)
          /\ harvested' = Append(harvested, [shape |-> n, image |-> v])
    /\ UNCHANGED <<impl, callVars, ctorVars, schedVars, dom, universe, builderVars, domainVars>>

StoreNext == ManifestDomain \/ SpawnUniverse \/ SowEntity

StoreSpec == StoreInit /\ [][StoreNext]_vars

\* the number of entities stored for the leaf shape n that equal v (v1: that have
\* the structural hash of v)
StoredAs(n, v) ==
    CASE impl = "v1" ->
           Cardinality({x \in Images(dom, n) : EntityHash(n, x) = EntityHash(n, v)})
      [] impl = "current" ->
           IF n \notin DOMAIN universe THEN 0
           ELSE IF universe[n].isSet THEN Cardinality({x \in universe[n].set : x = v})
           ELSE Len(SelectSeq(universe[n].list, LAMBDA x : x = v))
      [] OTHER ->
           IF n \notin DOMAIN E THEN 0
           ELSE Len(SelectSeq(E[n], LAMBDA x : x.value = v))

\* the number of entities stored for the leaf shape n whose value is v
StoredExactly(n, v) ==
    CASE impl = "v1" -> Cardinality({x \in Images(dom, n) : x = v})
      [] impl = "current" ->
           IF n \notin DOMAIN universe THEN 0
           ELSE IF universe[n].isSet THEN Cardinality({x \in universe[n].set : x = v})
           ELSE Len(SelectSeq(universe[n].list, LAMBDA x : x = v))
      [] OTHER ->
           IF n \notin DOMAIN E THEN 0
           ELSE Len(SelectSeq(E[n], LAMBDA x : x.value = v))

\* C4 (as claimed): a leaf value manifested two or more times is stored as exactly
\* one entity, in the Domain, in the Universe and in the v2 entity lists.
C4_LeafDedupIdempotent ==
    \A n \in DOMAIN tally : \A v \in DOMAIN tally[n] :
        tally[n][v] >= 2 => StoredAs(n, v) = 1

\* C15 (as claimed): harvesting a response against its output structure stores, for
\* every member present whose shape is a leaf, exactly one leaf entity per distinct
\* value under the member's shape, and no leaf entity of a value that does not occur
\* in the response; from an empty store, the response {Id: a} leaves exactly one
\* leaf entity, of value a.
C15_OneLeafEntityPerValue ==
    [][\A n \in {"IdOut"} :
          (Len(harvested') > Len(harvested) /\ harvested'[Len(harvested')].shape = n)
          => LET r == harvested'[Len(harvested')].image
                 sh == ShapeTable[n]
             IN \A m \in DOMAIN tally : \A v \in DOMAIN tally[m] :
                   IF \E k \in DOMAIN r \cap DOMAIN sh.members :
                          sh.members[k] = m /\ r[k] = v
                   THEN StoredExactly(m, v)' = 1
                   ELSE StoredExactly(m, v)' = StoredExactly(m, v)]_vars

MaxDepth == 2

\* largest number of dimension, manifest and spawn calls
MaxCalls == 5

\* the images given to Domain.dimension and to Domain.manifest
Keys == {-2, -1, 1}

\* Domain.__init__(entity); root_entity None is <<>>
NewDomain(root_entity) == [root_entity |-> root_entity, entities |-> {}]

\* the key of self.dimensions that the Entity of an image finds or takes
Dimension(entity) == EntityHash("CountType", entity)

\* the path of the child Domain at the entity, below the Domain at path p
Child(p, entity) == Append(p, Dimension(entity))

\* Domain.dimension(entity) on the Domain at path p: the tree afterwards; the child
\* it returns is the Domain at Child(p, entity)
dimension(t, p, entity) ==
    IF Child(p, entity) \in DOMAIN t THEN t
    ELSE (Child(p, entity) :> NewDomain(<<entity>>)) @@ t

\* Domain.manifest(image) on the Domain at path p
DomainManifest(t, p, image) ==
    [t EXCEPT ![p].entities = manifest("CountType", @, image)]

images_with_subdimensions(t, p) ==
    UNION {t[q].entities : q \in {x \in DOMAIN t : Len(x) >= Len(p) /\ SubSeq(x, 1, Len(p)) = p}}

\* Domain.images() of the Domain at path p
images(t, p) == t[p].entities

\* the key of Universe.dimensions that holds the universal dimension (util.All)
AllDimension == "All"

\* the dimensions spawn and images are called with: All and two service names
UniverseDimensions == {AllDimension, "ec2", "iam"}

\* the species and images the Universe is given
SpawnValues == [NameType |-> {"a", "b"}, NameList |-> {<<"a">>, <<"b", "b">>}]

\* Universe.spawn(dimension, species, image, hashable)
UniverseSpawn(u, d, species, image, hashable) ==
    (d :> spawn(IF d \in DOMAIN u THEN u[d] ELSE EmptyMap,
                species, image, hashable)) @@ u

\* list(dim.get(species, list())) for one dimension dict
SpeciesList(dim, species) ==
    IF species \notin DOMAIN dim THEN <<>>
    ELSE IF dim[species].isSet THEN SetToSeq(dim[species].set)
    ELSE dim[species].list

\* Universe.images(dimension, species)
UniverseImages(u, d, species) ==
    SpeciesList(IF d \in DOMAIN u THEN u[d] ELSE EmptyMap, species)
        \o SpeciesList(u[AllDimension], species)

\* Domain() as the root (impl "v1"), Universe() (impl "current")
DomainInit ==
    /\ impl \in {"v1", "current"}
    /\ req = NoInput
    /\ known = [n \in LeafShapeNames |-> {}]
    /\ out = NotRun
    /\ SchedIdle
    /\ StoreEmpty
    /\ BuilderIdle
    /\ CallIdle
    /\ domains = (<<>> :> NewDomain(<<>>))
    /\ direct = (<<>> :> {})
    /\ returned = {}
    /\ dimensions = (AllDimension :> EmptyMap)
    /\ spawned = [n \in DOMAIN SpawnValues |-> [d \in UniverseDimensions |-> {}]]
    /\ calls = 0

\* a call of Domain.dimension(entity) on a Domain of the tree; the call is recorded
\* with the child returned, whether it was created, the images the child returns
\* and the images manifest was called with on it
DimensionCall ==
    /\ impl = "v1"
    /\ calls < MaxCalls
    /\ \E p \in DOMAIN domains : \E entity \in Keys :
          /\ Len(p) < MaxDepth
          /\ LET c == Child(p, entity)
                 created == c \notin DOMAIN domains
             IN /\ domains' = dimension(domains, p, entity)
                /\ direct' = IF created THEN (c :> {}) @@ direct ELSE direct
                /\ returned' = returned \cup
                      {[parent |-> p, key |-> entity, child |-> c, created |-> created,
                        seen |-> images(domains', c), given |-> direct'[c]]}
    /\ calls' = calls + 1
    /\ UNCHANGED <<impl, callVars, ctorVars, schedVars, storeVars, builderVars, dimensions, spawned>>

\* a call of Domain.manifest(image) on a Domain of the tree
ManifestCall ==
    /\ impl = "v1"
    /\ calls < MaxCalls
    /\ \E p \in DOMAIN domains : \E image \in Keys :
          /\ domains' = DomainManifest(domains, p, image)
          /\ direct' = [direct EXCEPT ![p] = @ \cup {image}]
    /\ calls' = calls + 1
    /\ UNCHANGED <<impl, callVars, ctorVars, schedVars, storeVars, builderVars, returned, dimensions,
                   spawned>>

\* a call of Universe.spawn, hashable as LeafShape.populate and List.populate pass it
SpawnCall ==
    /\ impl = "current"
    /\ calls < MaxCalls
    /\ \E d \in UniverseDimensions : \E n \in DOMAIN SpawnValues : \E image \in SpawnValues[n] :
          /\ dimensions' = UniverseSpawn(dimensions, d, n, image, ShapeTable[n].type # "list")
          /\ spawned' = [spawned EXCEPT ![n][d] = @ \cup {image}]
    /\ calls' = calls + 1
    /\ UNCHANGED <<impl, callVars, ctorVars, schedVars, storeVars, builderVars, domains, direct,
                   returned>>

DomainNext == DimensionCall \/ ManifestCall \/ SpawnCall

DomainSpec == DomainInit /\ [][DomainNext]_vars

(***************************************************************************)
(* Claims about the Domain tree and the Universe.                          *)
(***************************************************************************)
\* C18 (as claimed): Domain.dimension(key) is idempotent: the first call for a key
\* creates an empty child, every later call with the same key returns that same child
\* with all entities manifested into it so far, and calls with two different keys
\* never return the same child.
C18_DimensionIdempotent ==
    /\ \A r \in returned :
          /\ r.created => r.seen = {}
          /\ r.seen \subseteq r.given
          /\ \A image \in r.given : \E e \in r.seen : Dimension(e) = Dimension(image)
    /\ \A r1, r2 \in returned :
          r1.parent = r2.parent =>
              /\ r1.key = r2.key => r1.child = r2.child
              /\ r1.key # r2.key => r1.child # r2.child

\* C19 (as claimed): images returns every value stored in the addressed dimension
\* and every value stored in the universal dimension, and no other value:
\* Universe.images for each dimension and species, Domain.images for each Domain
\* (which has no universal dimension).
C19_ImagesOfDimension ==
    /\ impl = "current" =>
          \A d \in UniverseDimensions : \A n \in DOMAIN SpawnValues :
              Range(UniverseImages(dimensions, d, n))
                  = spawned[n][d] \cup spawned[n][AllDimension]
    /\ impl = "v1" =>
          \A p \in DOMAIN domains : images(domains, p) = direct[p]

\* C20: Domains are disjoint: after any sequence of dimension and manifest calls,
\* Domain.images() of a Domain returns only images that manifest was called with on
\* that Domain, whatever its parent, its siblings and its sub-dimensions hold.
C20_DomainsDisjoint ==
    impl = "v1" => \A p \in DOMAIN domains : images(domains, p) \subseteq direct[p]

\* C20 witness: a Domain holds an entity, and its parent and one of its
\* sub-dimensions each hold an entity of an image it does not hold.
C20_Witness ==
    /\ impl = "v1"
    /\ \E p, c \in DOMAIN domains :
          /\ Len(p) = 1 /\ Len(c) = 2 /\ SubSeq(c, 1, 1) = p
          /\ images(domains, p) # {}
          /\ images(domains, <<>>) # {} /\ images(domains, c) # {}
          /\ images(domains, p) \cap images(domains, <<>>) = {}
          /\ images(domains, p) \cap images(domains, c) = {}

(***************************************************************************)
(* src/v2/shapes.py ShapeDomain: building the Shape instances of a schema. *)
(* __getitem__ is recursive through <Shape>.build; the calls in progress   *)
(* are the stack, and one action is one step of the innermost call.        *)
(***************************************************************************)
\* largest number of members of a structure of the schema
MaxRefs == 1

\* largest number of shapes asked of the domain from outside
MaxRequests == 2

BotoNames == {"A", "B", "L", "T"}

BotoShape(type, members) == [type |-> type, members |-> members]

MemberSeqs == UNION {[1..k -> BotoNames] : k \in 0..MaxRefs}

\* the schemas of the model: structures A and B with any members, the list L of
\* A, B or T, and the string T.  A list that is its own member is no schema of the
\* model: List.canonical_form would not return for it.
Schemas ==
    {[A |-> BotoShape("structure", ma), B |-> BotoShape("structure", mb),
      L |-> BotoShape("list", <<ml>>), T |-> BotoShape("string", <<>>)] :
        ma \in MemberSeqs, mb \in MemberSeqs, ml \in {"A", "B", "T"}}

\* SHAPE_TYPE_MAPPING[i.type_name](i, self, autobuild=False): a new instance,
\* nothing built yet; refs are the instances its members resolve to
NewShape(n) == [name |-> n, type |-> botoshapes[n].type, refs |-> <<>>]

minimal_canonical_form_nameless(sh) == sh.type

\* Shape.minimal_canonical_form (the metadata of a shape is fixed by its name)
minimal_canonical_form(sh) == sh.name \o ":" \o sh.type

RECURSIVE canonical_form(_, _)
\* <Shape>.canonical_form of instance i: Structure gives the minimal form, List adds
\* the canonical form of its member shape; what String and the numeric shapes add
\* (enum, min, max) is fixed by the schema for the name, as the metadata is
canonical_form(insts, i) ==
    IF insts[i].type = "list"
    THEN minimal_canonical_form(insts[i]) \o "[" \o canonical_form(insts, insts[i].refs[1]) \o "]"
    ELSE minimal_canonical_form(insts[i])

silhouette_never_seen(sil, sils) == FALSE

\* "if s_silhouette in self.silhouettes"
silhouette_seen(sil, sils) == sil \in DOMAIN sils

\* hand the instance ret to the caller: the call below the top of stk, or the outside
Deliver(insts, stk, ret) ==
    IF stk = <<>>
    THEN /\ instances' = insts
         /\ held' = held \cup {ret}
    ELSE /\ instances' = [insts EXCEPT ![stk[Len(stk)]].refs = Append(@, ret)]
         /\ held' = held

\* __getitem__(i) up to the call of build: lines 154-169
Enter(n) ==
    LET id == Len(instances) + 1
        insts == Append(instances, NewShape(n))
        sil == minimal_canonical_form(insts[id])
    IN IF silhouette_seen(sil, silhouettes)
       THEN /\ Deliver(insts, stack, silhouettes[sil])
            /\ UNCHANGED <<silhouettes, stack, S>>
       ELSE /\ instances' = insts
            /\ silhouettes' = (sil :> id) @@ silhouettes
            /\ stack' = Append(stack, id)
            /\ UNCHANGED <<held, S>>

BuilderInit ==
    /\ impl = "v2"
    /\ req = NoInput
    /\ known = [n \in LeafShapeNames |-> {}]
    /\ out = NotRun
    /\ SchedIdle
    /\ StoreEmpty
    /\ DomainIdle
    /\ CallIdle
    /\ botoshapes \in Schemas
    /\ instances = <<>>
    /\ silhouettes = EmptyMap
    /\ S = EmptyMap
    /\ stack = <<>>
    /\ held = {}
    /\ requests = 0

\* the domain is asked for a shape from outside (AWSAPIModel asks for the input and
\* output shapes of the operations)
Ask ==
    /\ stack = <<>>
    /\ requests < MaxRequests
    /\ requests' = requests + 1
    /\ \E n \in BotoNames : Enter(n)
    /\ UNCHANGED <<impl, callVars, botoshapes, ctorVars, schedVars, storeVars, domainVars>>

\* <Shape>.build of the innermost call asks the domain for its next member
BuildMember ==
    /\ stack # <<>>
    /\ LET top == instances[stack[Len(stack)]]
       IN /\ Len(top.refs) < Len(botoshapes[top.name].members)
          /\ Enter(botoshapes[top.name].members[Len(top.refs) + 1])
    /\ UNCHANGED <<impl, callVars, botoshapes, requests, ctorVars, schedVars, storeVars, domainVars>>

\* build has returned: lines 170-176
Finish ==
    /\ stack # <<>>
    /\ LET id == stack[Len(stack)]
           top == instances[id]
           sC == canonical_form(instances, id)
           table == IF sC \in DOMAIN S THEN S ELSE (sC :> id) @@ S
       IN /\ Len(top.refs) = Len(botoshapes[top.name].members)
          /\ silhouettes' = [k \in DOMAIN silhouettes \ {minimal_canonical_form(top)}
                                |-> silhouettes[k]]
          /\ S' = table
          /\ stack' = SubSeq(stack, 1, Len(stack) - 1)
          /\ Deliver(instances, SubSeq(stack, 1, Len(stack) - 1), table[sC])
    /\ UNCHANGED <<impl, callVars, botoshapes, requests, ctorVars, schedVars, storeVars, domainVars>>

BuilderNext == Ask \/ BuildMember \/ Finish

BuilderSpec == BuilderInit /\ [][BuilderNext]_vars

\* a call of __getitem__ in progress keeps running
BuilderFairSpec == BuilderSpec /\ WF_vars(BuilderNext)

(***************************************************************************)
(* Claims about the shape builder.                                         *)
(***************************************************************************)
Permanent == {S[c] : c \in DOMAIN S}

\* the shape named n refers back to itself through its members
RECURSIVE ReachableFrom(_, _)
ReachableFrom(ns, seen) ==
    LET next == UNION {Range(botoshapes[n].members) : n \in ns} \ seen
    IN IF next = {} THEN seen ELSE ReachableFrom(next, seen \cup next)

Cyclic(n) == botoshapes[n].type = "structure" /\ n \in ReachableFrom({n}, {})

\* C3: for every schema, those with structures that refer back to themselves
\* included, the calls of ShapeDomain.__getitem__ never nest deeper than there are
\* shapes and every request returns; when no call is in progress, the instances
\* handed out and the members of every instance of the permanent table are the
\* instances the permanent table stores under their canonical forms, fully built.
C3_CyclesShareOneInstance ==
    /\ [](Len(stack) <= Cardinality(BotoNames))
    /\ [](stack = <<>> =>
            /\ held \subseteq Permanent
            /\ \A i \in Permanent :
                  /\ Len(instances[i].refs) = Len(botoshapes[instances[i].name].members)
                  /\ \A k \in DOMAIN instances[i].refs :
                        LET r == instances[i].refs[k]
                        IN /\ instances[r].name = botoshapes[instances[i].name].members[k]
                           /\ canonical_form(instances, r) \in DOMAIN S
                           /\ S[canonical_form(instances, r)] = r)
    /\ <>[](stack = <<>> /\ requests = MaxRequests)

\* C3 witness: every request has returned for a schema in which structure A refers
\* back to itself through B; A's permanent instance is a member of B's, B's of A's,
\* and a second instance of A, built for a later request, is in no table.
C3_Witness ==
    /\ stack = <<>>
    /\ requests = MaxRequests
    /\ Cyclic("A")
    /\ "B" \in ReachableFrom({"A"}, {})
    /\ \E a, b \in Permanent :
          /\ instances[a].name = "A" /\ instances[b].name = "B"
          /\ b \in Range(instances[a].refs)
          /\ a \in Range(instances[b].refs)
    /\ \E i \in DOMAIN instances :
          /\ instances[i].name = "A"
          /\ i \notin Permanent
          /\ instances[i].refs # <<>>

Ended == pc \in {"done", "aborted"}

\* C2: the fixpoint loop (src/grump.py and v2 build_execution_plan) is monotonic and
\* bounded: within one loop the pending sequence never grows, a loop that starts with
\* n0 pending operations makes at most n0 passes, and every step of a loop brings its
\* end nearer: it ends the run or the loop, or attempts one more operation of the
\* same pass, or begins the next pass with fewer operations pending.
C2_FixpointBounded ==
    /\ [](passes <= n0)
    /\ [][/\ region' = region => Len(pending') <= Len(pending)
          /\ pc = "loop" =>
                \/ pc' \in {"done", "aborted"}
                \/ region' = region + 1
                \/ /\ passes' = passes
                   /\ pending' = pending
                   /\ todo' \subseteq todo /\ todo' # todo
                \/ /\ passes' = passes + 1
                   /\ region' = region
                   /\ Len(pending') < Len(pending)]_vars

\* C2 witness: a loop of src/grump.py that started with two or more pending
\* operations has ended after exactly that many passes, having removed some.
C2_Witness ==
    /\ impl = "v1"
    /\ pc = "done"
    /\ n0 >= 2
    /\ passes = n0
    /\ Len(pending) < n0

\* the leaf shapes a response of operation o carries a value of
ProducedLeaves(o) ==
    LET outs == Range(Operations[o].pages)
    IN {n \in LeafShapeNames :
          \E k \in DOMAIN ShapeTable[Operations[o].output].members :
             LET m == ShapeTable[Operations[o].output].members[k]
             IN m = n \/ (ShapeTable[m].type = "list" /\ ShapeTable[m].member = n)}

\* operation a has no required inputs and produces the one shape operation b requires
ScenarioAB(a, b) ==
    /\ a # b
    /\ read_only_op_filter(a) /\ read_only_op_filter(b)
    /\ Operations[a].input.required = {}
    /\ Operations[b].input.required # {}
    /\ {MemberPool[k] : k \in Operations[b].input.required} = {"NameType"}
    /\ "NameType" \in ProducedLeaves(a)

NoFailures == \A o \in OpNames : hist.nonfatal[o] = 0 /\ hist.fatal[o] = 0

\* C5 (as claimed): with operations A (no required inputs, produces Name) and B
\* (requires only Name), a run of src/grump.py in which no call fails resolves A in
\* the starter phase, B in the first pass, and ends with nothing pending.
C5_ScenarioResolved ==
    \A a, b \in OpNames :
        (/\ impl = "v1"
         /\ Ended
         /\ Range(svc) = {a, b}
         /\ ScenarioAB(a, b)
         /\ NoFailures)
        => (/\ hist.resolvedIn[a] = 0
            /\ hist.resolvedIn[b] = 1
            /\ pending = <<>>)

C12_InsufficientLeavesDomain ==
    [][(/\ impl = "v1"
        /\ pc = "loop"
        /\ InputConstruct(FirstTodo(pending, todo), dom).status = "insufficient")
       => LET o == FirstTodo(pending, todo)
          IN /\ pc' # "aborted"
             /\ o \in Range(pending) /\ o \notin successes'
             /\ hist.calls' = hist.calls
             /\ dom' = dom
             /\ todo # {o} => /\ pc' = "loop" /\ passes' = passes
                              /\ pending' = pending /\ todo' = todo \ {o}]_vars

\* C12 (corrected): as claimed, except that the attempt leaves every entity of the
\* domain as it was and adds none: construction may create the dimensions it
\* addressed, which are empty.
C12_InsufficientLeavesEntities ==
    [][(/\ impl = "v1"
        /\ pc = "loop"
        /\ InputConstruct(FirstTodo(pending, todo), dom).status = "insufficient")
       => LET o == FirstTodo(pending, todo)
          IN /\ pc' # "aborted"
             /\ o \in Range(pending) /\ o \notin successes'
             /\ todo = {o} => (pc' = "done" \/ o \in Range(pending'))
             /\ hist.calls' = hist.calls
             /\ DOMAIN dom \subseteq DOMAIN dom'
             /\ \A n \in DOMAIN dom' : dom'[n] = Images(dom, n)
             /\ todo # {o} => /\ pc' = "loop" /\ passes' = passes
                              /\ pending' = pending /\ todo' = todo \ {o}]_vars

\* C12 witness: in pass 1 of src/grump.py an operation whose required member had no
\* value was attempted without a call and stayed pending, and an operation that comes
\* after it in the same pass was then called and resolved.
C12_Witness ==
    \E o, q \in OpNames :
        /\ impl = "v1"
        /\ pc = "loop"
        /\ passes = 2
        /\ o \in Range(pending)
        /\ Operations[o].input.required # {}
        /\ hist.attempts[o] = 1 /\ hist.calls[o] = 0
        /\ StartsWith(o, "Get") /\ StartsWith(q, "Describe")
        /\ hist.resolvedIn[q] = 1 /\ hist.ok[q] >= 1

\* C16 (as claimed): an attempt of src/grump.py in which every invocation failed with
\* a failure registered as non-fatal for the operation harvests nothing: every
\* dimension of the domain holds the entities it held before, for the plain and for
\* the paginated call form, also when pages were received before the failure.
C16_NonFatalHarvestsNothing ==
    [][\A o \in OpNames :
          (/\ impl = "v1"
           /\ hist.calls'[o] > hist.calls[o]
           /\ hist.nonfatal'[o] - hist.nonfatal[o] = hist.calls'[o] - hist.calls[o])
          => \A n \in DOMAIN dom' : dom'[n] = Images(dom, n)]_vars

\* C7 (as claimed): in either scheduler, once the collaborator has raised a failure
\* that is not registered for the operation, the run is aborted.
C7_FatalPropagates ==
    \A o \in OpNames : hist.fatal[o] > 0 => pc = "aborted"

C9_OnlyReadOnly ==
    \A o \in OpNames :
        (o \in Range(pending) \/ o \in todo \/ o \in successes
            \/ hist.attempts[o] > 0 \/ hist.calls[o] > 0)
        => read_only_op_filter(o)

\* C9 witness: a run over a service that declares an operation outside the filter
\* has ended after calling operations.
C9_Witness ==
    /\ impl = "v1"
    /\ pc = "done"
    /\ \E o \in Range(svc) : ~read_only_op_filter(o)
    /\ \E o \in Range(svc) : hist.calls[o] > 0

RECURSIVE Sourced(_, _, _)
\* the value v of the shape named n is made of enum literals and of values of
\* entities whose lineage records region rg
Sourced(n, v, rg) ==
    LET sh == ShapeTable[n]
    IN CASE sh.type = "structure" -> \A k \in DOMAIN v : Sourced(sh.members[k], v[k], rg)
         [] sh.type = "list" -> \A j \in DOMAIN v : Sourced(sh.member, v[j], rg)
         [] sh.hasEnum -> v \in Range(sh.enum)
         [] OTHER -> /\ n \in DOMAIN E
                     /\ \E i \in DOMAIN E[n] : E[n][i].value = v /\ E[n][i].region = rg

\* C28: every parameter map build_execution_plan invokes for region r is built only
\* from enum literals and from values of entities that were, when the attempt
\* began, in the store with a lineage that records region r.
C28_RegionOnlyValues ==
    [][impl = "v2" =>
          \A i \in DOMAIN hist'.invoked.params :
              \A k \in DOMAIN hist'.invoked.params[i] :
                  Sourced(MemberPool[k], hist'.invoked.params[i][k], hist'.invoked.region)]_vars

\* C28 witness: in the second region, GetName was invoked with a Name, while the
\* store holds Name values harvested in the first region and in the second.
C28_Witness ==
    /\ impl = "v2"
    /\ hist.invoked.region = Regions[2]
    /\ hist.invoked.op = "GetName"
    /\ hist.invoked.params # <<>>
    /\ "Name" \in DOMAIN hist.invoked.params[1]
    /\ "NameType" \in DOMAIN E
    /\ \E i, j \in DOMAIN E["NameType"] :
          /\ E["NameType"][i].region = Regions[1]
          /\ E["NameType"][j].region = Regions[2]
          /\ E["NameType"][i].value = hist.invoked.params[1]["Name"]

\* the values a domain holds: its dimensions that hold any, with their entity images
Held(d) == [n \in {m \in DOMAIN d : d[m] # {}} |-> d[n]]

\* the collaborator answers every call of an operation the same way
Deterministic == \A o \in OpNames : hist.script[o].kind # "any"

\* the collaborator raises no failure that is fatal for the operation called
NeverFatal ==
    \A o \in Range(svc) : hist.script[o].kind \in Operations[o].allowed \cup {"ok"}

\* the values a run of the same service with the same collaborator ends with when
\* every pass follows the list of get_operations
ValuesInListOrder ==
    Held(InListOrder(EmptyMap,
                     AfterStarter(read_only_operations(svc), Range(starter_ops(svc))),
                     hist))

EntitiesFor(e, n) == IF n \in DOMAIN e THEN e[n] ELSE <<>>

\* the entities of the sequence after that were appended to the sequence before
Appended(before, after) == SubSeq(after, Len(before) + 1, Len(after))

\* this step harvests image v for a shape of the given type, under v1 or v2
Harvests(type) ==
    /\ impl \in {"v1", "v2"}
    /\ Len(harvested') = Len(harvested) + 1
    /\ ShapeTable[harvested'[Len(harvested')].shape].type = type

\* C31: harvesting a structure value stores one entity for the structure itself and
\* harvests each declared member present in the value, skipping absent members and
\* undeclared keys; the empty structure value stores no entity
C31_StructureHarvest ==
    [][Harvests("structure") =>
          LET n == harvested'[Len(harvested')].shape
              v == harvested'[Len(harvested')].image
              sh == ShapeTable[n]
              present == {k \in DOMAIN sh.members : k \in DOMAIN v}
              own == [k \in present |-> v[k]]
          IN /\ (v = EmptyMap) =>
                   (/\ Images(dom', n) = Images(dom, n)
                    /\ EntitiesFor(E', n) = EntitiesFor(E, n))
             /\ (v # EmptyMap /\ impl = "v1") => v \in Images(dom', n)
             /\ (v # EmptyMap /\ impl = "v2") =>
                   Appended(EntitiesFor(E, n), EntitiesFor(E', n))
                       = <<[value |-> own, region |-> TheRegion]>>
             /\ \A k \in present :
                   /\ impl = "v1" => v[k] \in Images(dom', sh.members[k])
                   /\ impl = "v2" =>
                         \E i \in DOMAIN Appended(EntitiesFor(E, sh.members[k]),
                                                  EntitiesFor(E', sh.members[k])) :
                            Appended(EntitiesFor(E, sh.members[k]),
                                     EntitiesFor(E', sh.members[k]))[i].value = v[k]
             /\ \A m \in DOMAIN ShapeTable \ ({n} \cup {sh.members[k] : k \in present}) :
                   /\ Images(dom', m) = Images(dom, m)
                   /\ EntitiesFor(E', m) = EntitiesFor(E, m)
             /\ \A m \in {sh.members[k] : k \in present} :
                   /\ Images(dom', m) \subseteq Images(dom, m) \cup {v[k] : k \in present}
                   /\ impl = "v2" =>
                         Len(EntitiesFor(E', m)) - Len(EntitiesFor(E, m))
                             = Cardinality({k \in present : sh.members[k] = m})]_vars

\* C32: harvesting a non-empty list value stores one entity for the whole list under
\* the list shape and harvests every element under the member shape; harvesting an
\* empty list stores nothing
C32_ListHarvest ==
    [][Harvests("list") =>
          LET n == harvested'[Len(harvested')].shape
              v == harvested'[Len(harvested')].image
              m == ShapeTable[n].member
              sown == Appended(EntitiesFor(E, m), EntitiesFor(E', m))
          IN /\ (v = <<>>) => (dom' = dom /\ E' = E)
             /\ (v # <<>> /\ impl = "v1") => v \in Images(dom', n)
             /\ (v # <<>> /\ impl = "v2") =>
                   Appended(EntitiesFor(E, n), EntitiesFor(E', n))
                       = <<[value |-> v, region |-> TheRegion]>>
             /\ impl = "v1" => /\ \A i \in DOMAIN v : v[i] \in Images(dom', m)
                               /\ Images(dom', m) \subseteq Images(dom, m) \cup Range(v)
             /\ impl = "v2" => [i \in DOMAIN sown |-> sown[i].value] = v
             /\ \A o \in DOMAIN ShapeTable \ {n, m} :
                   /\ Images(dom', o) = Images(dom, o)
                   /\ EntitiesFor(E', o) = EntitiesFor(E, o)]_vars

\* C33: when a pass of the loop ends without having resolved any operation, the
\* entities held are those held when the pass began (v1: the images of every
\* dimension; v2: the entity list of every shape)
C33_IdlePassLeavesEntities ==
    (pc = "done" /\ pending # <<>>) =>
        /\ impl = "v1" => Held(dom) = Held(hist.before)
        /\ impl = "v2" => E = hist.before

\* C34 as stated: an operation that was resolved stays resolved, is not pending and is
\* not invoked in any later step of the run
C34_ResolvedForTheRun ==
    [][\A o \in OpNames :
          hist.resolvedIn[o] >= 0 =>
              /\ hist.resolvedIn'[o] = hist.resolvedIn[o]
              /\ o \notin Range(pending')
              /\ hist.calls'[o] = hist.calls[o]]_vars

\* C34: an operation that was resolved stays resolved, is not pending and is not
\* invoked again in the src/grump.py loop, and in v2 build_execution_plan until the
\* crawl of the next region begins
C34_ResolvedForTheRegion ==
    [][\A o \in OpNames :
          (hist.resolvedIn[o] >= 0 /\ region' = region) =>
              /\ hist.resolvedIn'[o] = hist.resolvedIn[o]
              /\ o \notin Range(pending')
              /\ hist.calls'[o] = hist.calls[o]]_vars

\* v2 has resolved one operation of region r2 in an earlier pass and attempts another
\* in a later pass
C34_Witness ==
    /\ impl = "v2"
    /\ region = 2
    /\ pc = "loop"
    /\ passes = 2
    /\ todo # Range(pending)
    /\ \E o \in Range(svc) : hist.resolvedIn[o] = 1 /\ hist.calls[o] >= 2

\* the candidate parameter maps an attempt of o would invoke from the entities of
\* the state the attempt starts in
CandidatesNow(o) ==
    IF impl = "v2"
    THEN StructureReap(Operations[o].input, E, Regions[region], TRUE).items
    ELSE InputConstruct(o, dom).items

\* C35: within one attempt of an operation the parameter maps invoked are those
\* constructible from the domain as it was when the first candidate was
\* requested, in that order (all of them, or the first ones when a call ends the
\* run): what the attempt harvests from its own responses adds, removes and
\* changes no candidate of the same attempt.
C35_CandidatesOfTheAttemptStart ==
    [][\A o \in OpNames :
          (hist'.attempts[o] # hist.attempts[o] /\ ~hist'.crashed) =>
              /\ hist'.invoked.op = o
              /\ Len(hist'.invoked.params) <= Len(CandidatesNow(o))
              /\ hist'.invoked.params =
                     SubSeq(CandidatesNow(o), 1, Len(hist'.invoked.params))
              /\ (pc' # "aborted") => (Len(hist'.invoked.params) = Len(CandidatesNow(o)))]_vars

\* an attempt of DescribeSize has just invoked every candidate it started with, and
\* the Count its responses carried now makes one more candidate constructible
C35_Witness ==
    /\ impl = "v1"
    /\ pc # "aborted"
    /\ hist.invoked.op = "DescribeSize"
    /\ Len(hist.invoked.params) >= 1
    /\ hist.ok["DescribeSize"] >= 1
    /\ Len(InputConstruct("DescribeSize", dom).items) > Len(hist.invoked.params)


\* C36: for every domain state, constructing and iterating the candidates of a
\* Request shape either yields parameter maps or raises
\* InsufficientMembersException, and fails with no other error, a member that is a
\* nested structure whose string member has no known value and no enum included.
C36_OnlyInsufficientMembers ==
    out # NotRun => out.status \in {"ok", "insufficient"}


RECURSIVE Occurrences(_, _)
\* the number of non-empty instances of the structure shape n in the value v of
\* shape n, v itself included
Occurrences(n, v) ==
    IF v = EmptyMap THEN 0
    ELSE 1 + Sum([k \in {j \in DOMAIN v \cap DOMAIN ShapeTable[n].members :
                             ShapeTable[n].members[j] = n} |-> Occurrences(n, v[k])],
                 {j \in DOMAIN v \cap DOMAIN ShapeTable[n].members :
                             ShapeTable[n].members[j] = n})

\* C37: v2 sow completes without error for every response value that conforms to
\* its shape, a structure nested inside an instance of its own shape included, and
\* stores an entity for each nested occurrence.
C37_SowOfSelfNested ==
    [][(/\ impl = "v2"
        /\ Len(harvested') = Len(harvested) + 1
        /\ ShapeTable[harvested'[Len(harvested')].shape].type = "structure")
       => LET n == harvested'[Len(harvested')].shape
              v == harvested'[Len(harvested')].image
          IN /\ ~Sow(n, v, RootLineageKeys, TheRegion, E).raised
             /\ Len(EntitiesFor(E', n)) - Len(EntitiesFor(E, n)) = Occurrences(n, v)]_vars


\* C38: Domain.manifest never conflates different values: whatever the Domain
\* holds, after manifest(image) its images() are the images it returned before and
\* image, so that an image is taken for already present only when it equals a stored
\* one and two unequal leaf values manifested into one Domain are both returned.
C38_ManifestKeepsDistinctValues ==
    [][impl = "v1" =>
          \A p \in DOMAIN domains : \A image \in Keys :
              (/\ calls' = calls + 1
               /\ domains' = DomainManifest(domains, p, image)
               /\ direct' = [direct EXCEPT ![p] = @ \cup {image}])
              => images(domains', p) = images(domains, p) \cup {image}]_vars

====
